---- MODULE Spec2Model ----
(***************************************************************************)
(* A model of sims_photUtils: PhotometricParameters (the per-bandpass      *)
(* configuration object), EBV (the dust map and the EBV mixin),            *)
(* Photometry (the bandpass / SED handling and the magnitude getters of    *)
(* the photometry mixins), selectGalaxySED (the colour matching) and       *)
(* BandpassDict as its tests use it.                                       *)
(*                                                                         *)
(* Conventions                                                             *)
(*   - A Python value that may be None is an option: None is <<>> and a    *)
(*     value v is <<v>>.                                                   *)
(*   - Floating point quantities are exact integers in a stated unit.      *)
(*   - The classes are independent objects; each has its own next-state    *)
(*     relation and specification over the shared variables.               *)
(***************************************************************************)
EXTENDS Integers, Sequences, FiniteSets, TLC

VARIABLES
    ppState,      \* "none": no object yet, "built": constructor returned, "failed": it raised
    ppBandpass,   \* self._bandpass
    ppField,      \* self._exptime ... self._othernoise, keyed by parameter name
    ppArgs,       \* the keyword arguments of the last constructor call
    ppArgBandpass,\* the bandpass argument of the last constructor call
    ppRaised,     \* the exception the last operation raised, if any
    ppMessage,    \* the 'did not set ...' lines of the last constructor error
    ppAtInit,     \* what the properties returned right after construction
    ppLastSet,    \* the attribute the last assignment attempt was made on
    ebvMapNorthName, \* EBVmixin.ebvMapNorthName
    ebvMapSouthName, \* EBVmixin.ebvMapSouthName
    ebvMapNorth,  \* EBVmixin.ebvMapNorth: None or the EbvMap loaded
    ebvMapSouth,  \* EBVmixin.ebvMapSouth: None or the EbvMap loaded
    readsNorth,   \* how often readMapFits ran for the northern map
    readsSouth,   \* how often readMapFits ran for the southern map
    userLoaded,   \* TRUE once load_ebvMapNorth/South was called from outside get_EBV
    ebvAsked,     \* TRUE once get_EBV was called
    catalog,      \* the glon and glat columns of the catalogue object
    ebvOp,        \* the last EBV operation
    ebvIn,        \* its arguments
    ebvCalls,     \* the generateEbv calls it made, in order
    ebvOut,       \* what it returned
    catKind,      \* "stars" (PhotometryStars) or "galaxies" (PhotometryGalaxies)
    bandPassList, \* PhotometryBase.bandPassList: None or the list of Bandpass objects
    phiArray,     \* PhotometryBase.phiArray
    waveLenStep,  \* PhotometryBase.waveLenStep
    userBands,    \* the arguments of the user's last loadBandPasses call, if any
    photOp,       \* the last operation on the photometry object
    photOut,      \* the rows of the array the last getter returned
    sedOp,        \* "none" or "loadSeds"
    sedIn,        \* the arguments of the loadSeds call
    sedHeap,      \* the Sed objects that exist; an object is known by its index
    uniqueSedDict,\* loadSeds' dict of templates: SED name -> object
    sedOut,       \* the list loadSeds returned: objects, in order
    fnOp,         \* "none" or the method called last among those that keep no state
    fnIn,         \* its arguments
    fnOut,        \* what it returned
    bdObj,        \* the BandpassDict built, or None
    bdArgs,       \* the arguments of the BandpassDict constructor call
    bdOp,         \* the last operation on the BandpassDict
    bdRaised,     \* the exception it raised, if any
    bdOut         \* what it returned, or the message of the exception

ppVars == <<ppState, ppBandpass, ppField, ppArgs, ppArgBandpass, ppRaised,
            ppMessage, ppAtInit, ppLastSet>>

mixinVars == <<ebvMapNorthName, ebvMapSouthName, ebvMapNorth, ebvMapSouth,
               readsNorth, readsSouth, userLoaded, ebvAsked, catalog>>

callVars == <<ebvOp, ebvIn, ebvCalls, ebvOut>>

photVars == <<catKind, bandPassList, phiArray, waveLenStep, userBands, photOp, photOut>>

sedVars == <<sedOp, sedIn, sedHeap, uniqueSedDict, sedOut>>

fnVars == <<fnOp, fnIn, fnOut>>

bdVars == <<bdObj, bdArgs, bdOp, bdRaised, bdOut>>

vars == <<ppVars, mixinVars, callVars, photVars, sedVars, fnVars, bdVars>>

None == <<>>
Some(v) == <<v>>
Val(o) == o[1]

(***************************************************************************)
(* PhotometricParameters.py                                                *)
(***************************************************************************)

bandpassNames == <<"u", "g", "r", "i", "z", "y", "any">>

bandpassNameSet == {bandpassNames[k] : k \in 1..Len(bandpassNames)}

\* exposure time in seconds
exptime == [u |-> 15, g |-> 15, r |-> 15, i |-> 15, z |-> 15, y |-> 15, any |-> 15]

\* number of exposures
nexp == [u |-> 2, g |-> 2, r |-> 2, i |-> 2, z |-> 2, y |-> 2, any |-> 2]

\* effective area in units of 1e-3 cm^2 (3.31830724e5 cm^2)
effarea == [u |-> 331830724, g |-> 331830724, r |-> 331830724, i |-> 331830724,
            z |-> 331830724, y |-> 331830724, any |-> 331830724]

\* electrons per ADU, in tenths (2.3)
gain == [u |-> 23, g |-> 23, r |-> 23, i |-> 23, z |-> 23, y |-> 23, any |-> 23]

\* electrons per pixel per exposure, in tenths (5.0)
readnoise == [u |-> 50, g |-> 50, r |-> 50, i |-> 50, z |-> 50, y |-> 50, any |-> 50]

\* electrons per pixel per second, in tenths (0.2)
darkcurrent == [u |-> 2, g |-> 2, r |-> 2, i |-> 2, z |-> 2, y |-> 2, any |-> 2]

\* electrons per pixel per exposure, in hundredths (4.69)
othernoise == [u |-> 469, g |-> 469, r |-> 469, i |-> 469, z |-> 469, y |-> 469,
               any |-> 469]

\* arcseconds per pixel, in tenths (0.2)
platescale == [u |-> 2, g |-> 2, r |-> 2, i |-> 2, z |-> 2, y |-> 2, any |-> 2]

\* sigmaSys with an 'any' entry that was not kept consistent with the r band
sigmaSys_anyLikeU == [u |-> 75, g |-> 50, r |-> 50, i |-> 50, z |-> 75, y |-> 75, any |-> 75]

\* systematic error in units of 1e-4 magnitudes (0.0075, 0.005)
sigmaSys == [u |-> 75, g |-> 50, r |-> 50, i |-> 50, z |-> 75, y |-> 75, any |-> 50]

\* DefaultPhotometricParameters(): the tables by parameter name
defaults == [exptime |-> exptime, nexp |-> nexp, effarea |-> effarea, gain |-> gain,
             platescale |-> platescale, sigmaSys |-> sigmaSys, readnoise |-> readnoise,
             darkcurrent |-> darkcurrent, othernoise |-> othernoise]

\* the parameters in the order in which __init__ checks them
ParamOrder == <<"exptime", "nexp", "effarea", "gain", "platescale", "sigmaSys",
                "readnoise", "darkcurrent", "othernoise">>

ParamNames == {ParamOrder[k] : k \in 1..Len(ParamOrder)}

\* every attribute that has a property and a setter
AttrNames == ParamNames \cup {"bandpass"}

\* lines 142-148: None reads the 'any' entries
BandpassKey(bandpass) == IF bandpass = None THEN "any" ELSE Val(bandpass)

\* lines 129-159: every field starts as None and takes the default of a known key
ApplyDefaults(bandpassKey) ==
    [p \in ParamNames |->
        IF bandpassKey \in bandpassNameSet THEN Some(defaults[p][bandpassKey]) ELSE None]

\* an argument replaces the field when it is true, which zero is not
ApplyExplicit_truthy(fields, args) ==
    [p \in ParamNames |->
        IF args[p] # None /\ Val(args[p]) # 0 THEN args[p] ELSE fields[p]]

\* lines 161-186: an argument that is not None replaces the field
ApplyExplicit(fields, args) ==
    [p \in ParamNames |-> IF args[p] # None THEN args[p] ELSE fields[p]]

\* the checks of lines 191-225 with the one for platescale left out
FailureLinesFrom_skipPlatescale(fields, k) ==
    LET RECURSIVE walk(_)
        walk(j) == IF j > Len(ParamOrder) THEN <<>>
                   ELSE (IF fields[ParamOrder[j]] = None /\ ParamOrder[j] # "platescale"
                         THEN <<<<"did not set", ParamOrder[j]>>>> ELSE <<>>) \o walk(j + 1)
    IN walk(k)

\* lines 188-225: one 'did not set <name>' line per field that is still None,
\* from the k-th check on; failureCt is the number of lines
FailureLinesFrom(fields, k) ==
    LET RECURSIVE walk(_)
        walk(j) == IF j > Len(ParamOrder) THEN <<>>
                   ELSE (IF fields[ParamOrder[j]] = None
                         THEN <<<<"did not set", ParamOrder[j]>>>> ELSE <<>>) \o walk(j + 1)
    IN walk(k)

\* PhotometricParameters.__init__: the object built, or the error raised
PhotometricParameters(args, bandpass) ==
    LET fields == ApplyExplicit(ApplyDefaults(BandpassKey(bandpass)), args)
        failureMessage == FailureLinesFrom(fields, 1)
        failureCt == Len(failureMessage)
    IN [raised |-> IF failureCt > 0 THEN Some("RuntimeError") ELSE None,
        failureMessage |-> failureMessage,
        bandpass |-> bandpass,
        fields |-> fields]

\* the property getters, lines 232-353
Property(name) == IF name = "bandpass" THEN ppBandpass ELSE ppField[name]

AllProperties == [n \in AttrNames |-> Property(n)]

\* a setter for gain that stores the value
Setter_gainAssigns(name, value) ==
    [raised |-> IF name = "gain" THEN None ELSE Some("RuntimeError"),
     fields |-> IF name = "gain" THEN [ppField EXCEPT !["gain"] = Some(value)] ELSE ppField,
     bandpass |-> ppBandpass]

\* the property setters, lines 239-359: each only raises RuntimeError
Setter(name, value) ==
    [raised |-> Some("RuntimeError"), fields |-> ppField, bandpass |-> ppBandpass]

\* explicit argument values: zero, and a value that is no default
ExplicitValues == {0, 7}

\* bandpass arguments: None, the LSST names, 'any', and a name with no defaults
BandpassArgs == {None} \cup {Some(b) : b \in bandpassNameSet \cup {"x"}}

\* keyword arguments: any subset of the parameters passed, the others left None
ArgChoices ==
    {[p \in ParamNames |-> IF p \in S THEN Some(v) ELSE None] :
        S \in SUBSET ParamNames, v \in ExplicitValues}

ppInit ==
    /\ ppState = "none"
    /\ ppBandpass = None
    /\ ppField = [p \in ParamNames |-> None]
    /\ ppArgs = [p \in ParamNames |-> None]
    /\ ppArgBandpass = None
    /\ ppRaised = None
    /\ ppMessage = <<>>
    /\ ppAtInit = [n \in AttrNames |-> None]
    /\ ppLastSet = None

\* myPhotParams = PhotometricParameters(..., bandpass=...): a behaviour follows
\* one object, so the constructor runs once
Construct ==
    /\ ppState = "none"
    /\ \E args \in ArgChoices, bandpass \in BandpassArgs :
        LET r == PhotometricParameters(args, bandpass) IN
        /\ ppArgs' = args
        /\ ppArgBandpass' = bandpass
        /\ ppRaised' = r.raised
        /\ ppMessage' = r.failureMessage
        /\ ppState' = IF r.raised = None THEN "built" ELSE "failed"
        /\ ppBandpass' = IF r.raised = None THEN r.bandpass ELSE None
        /\ ppField' = IF r.raised = None THEN r.fields ELSE [p \in ParamNames |-> None]
        /\ ppAtInit' = IF r.raised = None
                       THEN [n \in AttrNames |->
                                IF n = "bandpass" THEN r.bandpass ELSE r.fields[n]]
                       ELSE [n \in AttrNames |-> None]
        /\ ppLastSet' = None

\* myPhotParams.<name> = value
SetAttr ==
    /\ ppState = "built"
    /\ \E name \in AttrNames, value \in ExplicitValues :
        LET r == Setter(name, value) IN
        /\ ppRaised' = r.raised
        /\ ppField' = r.fields
        /\ ppBandpass' = r.bandpass
        /\ ppLastSet' = Some(name)
    /\ UNCHANGED <<ppState, ppArgs, ppArgBandpass, ppMessage, ppAtInit>>

ppNext == Construct \/ SetAttr


(***************************************************************************)
(* EBV.py                                                                  *)
(*                                                                         *)
(* Pixel coordinates are counted in units of 1/SubPixel of a pixel.  An    *)
(* E(B-V) value returned by generateEbv is counted in units of             *)
(* 1/(SubPixel*SubPixel) of the unit of the map data, so that the two      *)
(* nested interpolations are exact.                                        *)
(***************************************************************************)

\* the resolution of the pixel coordinates
SubPixel == 2

\* the shape of the dust maps
MapRows == 2

MapCols == 3

\* the longest catalogue column
MaxObjs == 2

\* how often the load routines are called directly
MaxReads == 2

EbvUnit == SubPixel * SubPixel

\* the dust map files that exist: the two defaults of lines 177-178 and one other
DefaultNorthName == "data/Dust/SFD_dust_4096_ngp.fits"

DefaultSouthName == "data/Dust/SFD_dust_4096_sgp.fits"

MapFiles == {DefaultNorthName, DefaultSouthName, "data/Dust/other.fits"}

\* the image of a file: data[iy][ix], rows and columns counted from 0
FileData(fileName) ==
    LET base == IF fileName = DefaultNorthName THEN 10
                ELSE IF fileName = DefaultSouthName THEN 20 ELSE 30
    IN [iy \in 0..(MapRows - 1) |->
           [ix \in 0..(MapCols - 1) |-> base + ix * ix + 2 * iy + ix * iy]]

\* EbvMap.readMapFits, lines 35-41: the data and its shape
readMapFits(fileName) ==
    [fileName |-> fileName, data |-> FileData(fileName), nr |-> MapRows, nc |-> MapCols]

\* the pixel coordinates whose nearest pixel (int(c + 0.5)) lies on the map
XCoords == {c \in (-SubPixel)..(MapCols * SubPixel) :
               -SubPixel <= 2 * c /\ 2 * c < 2 * SubPixel * MapCols - SubPixel}

YCoords == {c \in (-SubPixel)..(MapRows * SubPixel) :
               -SubPixel <= 2 * c /\ 2 * c < 2 * SubPixel * MapRows - SubPixel}

YMin == CHOOSE c \in YCoords : \A d \in YCoords : c <= d

\* galactic coordinates: the longitudes and latitudes that project onto the map
Longitudes == XCoords

Latitudes == {s * (c - YMin) : s \in {-1, 1}, c \in YCoords}

Abs(n) == IF n < 0 THEN -n ELSE n

\* EbvMap.skyToXY, lines 60-105.  The ZEA projection is trigonometric; this
\* stand-in keeps its shape: x follows the longitude, y the distance from the
\* pole of the map's own hemisphere (theta = gLat north, -gLat south).
skyToXY(gLon, gLat) == <<gLon, Abs(gLat) + YMin>>

\* Python's int(): truncation towards zero of n/d, d > 0
IntTrunc(n, d) == IF n >= 0 THEN n \div d ELSE -((-n) \div d)

\* int(c + 0.5), lines 122-123
NearestPixel(c) == IntTrunc(2 * c + SubPixel, 2 * SubPixel)

\* interp1D, lines 20-25: (z2-z1)*offset + z1, the offset in units of 1/SubPixel
\* and the result in units of 1/SubPixel of the unit of z1 and z2
interp1D(z1, z2, offset) == (z2 - z1) * offset + z1 * SubPixel

\* lines 126-141: the low and high index and the offset along one axis
InterpAxis(c, n) ==
    LET ic == NearestPixel(c) IN
    IF ic = n - 1
    THEN [low |-> ic - 1, high |-> ic, d |-> ic * SubPixel - c]
    ELSE [low |-> ic, high |-> ic + 1, d |-> c - ic * SubPixel]

\* EbvMap.generateEbv, lines 107-154
generateEbv(map, glon, glat, interpolate) ==
    LET xy == skyToXY(glon, glat)
        x == xy[1]
        y == xy[2]
        ix == NearestPixel(x)
        iy == NearestPixel(y)
        ax == InterpAxis(x, map.nc)
        ay == InterpAxis(y, map.nr)
        xLow == interp1D(map.data[ay.low][ax.low], map.data[ay.low][ax.high], ax.d)
        xHigh == interp1D(map.data[ay.high][ax.low], map.data[ay.high][ax.high], ax.d)
    IN IF interpolate
       THEN interp1D(xLow, xHigh, ay.d)
       ELSE map.data[iy][ix] * EbvUnit

\* the hemisphere test of line 231 with the equator sent north
UseSouth_strict(lat) == lat < 0

\* line 231: lat <= 0.
UseSouth(lat) == lat <= 0

Min(a, b) == IF a < b THEN a ELSE b

\* EBVmixin.calculateEbv, lines 210-236: the generateEbv calls made for
\* zip(gLon, gLat), in order, each with the value it returned
calculateEbvCalls(gLon, gLat, northMap, southMap, interp) ==
    [k \in 1..Min(Len(gLon), Len(gLat)) |->
        IF UseSouth(gLat[k])
        THEN [map |-> "south", lon |-> gLon[k], lat |-> gLat[k], interpolate |-> interp,
              value |-> generateEbv(southMap, gLon[k], gLat[k], interp)]
        ELSE [map |-> "north", lon |-> gLon[k], lat |-> gLat[k], interpolate |-> interp,
              value |-> generateEbv(northMap, gLon[k], gLat[k], interp)]]

\* the list calculateEbv returns
calculateEbv(gLon, gLat, northMap, southMap, interp) ==
    LET calls == calculateEbvCalls(gLon, gLat, northMap, southMap, interp)
    IN [k \in 1..Len(calls) |-> calls[k].value]

\* sequences over S of length at most n
SeqUpTo(S, n) == UNION {[1..k -> S] : k \in 0..n}

\* the coordinates the catalogue columns hold: two longitudes, and a latitude
\* south of, on and north of the equator
CatalogLons == {0, 1}

CatalogLats == {-1, 0, 1}

\* a load forced on every get_EBV
NeedsLoad_always(map) == TRUE

\* lines 244, 247: the map is loaded when the attribute is still None
NeedsLoad(map) == map = None

\* the catalogue objects: equally long glon and glat columns
Catalogs ==
    UNION {{[glon |-> a, glat |-> b] : b \in [1..Len(a) -> CatalogLats]} :
              a \in SeqUpTo(CatalogLons, MaxObjs)}

\* the class attributes of lines 176-180, on a catalogue object with the columns cat
ebvInitWith(cat) ==
    /\ ebvMapNorthName = DefaultNorthName
    /\ ebvMapSouthName = DefaultSouthName
    /\ ebvMapNorth = None
    /\ ebvMapSouth = None
    /\ readsNorth = 0
    /\ readsSouth = 0
    /\ userLoaded = FALSE
    /\ ebvAsked = FALSE
    /\ catalog = cat
    /\ ebvOp = "none"
    /\ ebvIn = <<>>
    /\ ebvCalls = <<>>
    /\ ebvOut = <<>>

ebvInit == ebvInitWith([glon |-> <<>>, glat |-> <<>>])

\* the variables of the last call, for an operation that returns nothing
NoResult(op, arg) ==
    /\ ebvOp' = op
    /\ ebvIn' = arg
    /\ ebvCalls' = <<>>
    /\ ebvOut' = <<>>

\* EBVmixin.set_ebvMapNorth, lines 183-187
set_ebvMapNorth ==
    \E word \in MapFiles :
        /\ ebvMapNorthName' = word
        /\ NoResult("set_ebvMapNorth", <<>>)
        /\ UNCHANGED <<ebvMapSouthName, ebvMapNorth, ebvMapSouth, readsNorth, readsSouth,
                       userLoaded, ebvAsked, catalog>>

\* EBVmixin.set_ebvMapSouth, lines 189-193
set_ebvMapSouth ==
    \E word \in MapFiles :
        /\ ebvMapSouthName' = word
        /\ NoResult("set_ebvMapSouth", <<>>)
        /\ UNCHANGED <<ebvMapNorthName, ebvMapNorth, ebvMapSouth, readsNorth, readsSouth,
                       userLoaded, ebvAsked, catalog>>

\* EBVmixin.load_ebvMapNorth, lines 196-201, called by the user
load_ebvMapNorth ==
    /\ readsNorth < MaxReads
    /\ ebvMapNorth' = Some(readMapFits(ebvMapNorthName))
    /\ readsNorth' = readsNorth + 1
    /\ userLoaded' = TRUE
    /\ NoResult("load_ebvMapNorth", <<>>)
    /\ UNCHANGED <<ebvMapNorthName, ebvMapSouthName, ebvMapSouth, readsSouth, ebvAsked,
                   catalog>>

\* EBVmixin.load_ebvMapSouth, lines 203-208, called by the user
load_ebvMapSouth ==
    /\ readsSouth < MaxReads
    /\ ebvMapSouth' = Some(readMapFits(ebvMapSouthName))
    /\ readsSouth' = readsSouth + 1
    /\ userLoaded' = TRUE
    /\ NoResult("load_ebvMapSouth", <<>>)
    /\ UNCHANGED <<ebvMapNorthName, ebvMapSouthName, ebvMapNorth, readsNorth, ebvAsked,
                   catalog>>

\* EBVmixin.get_EBV, lines 240-254
get_EBV ==
        LET loadNorth == NeedsLoad(ebvMapNorth)
            loadSouth == NeedsLoad(ebvMapSouth)
            north == IF loadNorth THEN Some(readMapFits(ebvMapNorthName)) ELSE ebvMapNorth
            south == IF loadSouth THEN Some(readMapFits(ebvMapSouthName)) ELSE ebvMapSouth
            glon == catalog.glon
            glat == catalog.glat
        IN
        /\ ebvMapNorth' = north
        /\ ebvMapSouth' = south
        /\ readsNorth' = IF loadNorth THEN readsNorth + 1 ELSE readsNorth
        /\ readsSouth' = IF loadSouth THEN readsSouth + 1 ELSE readsSouth
        /\ ebvAsked' = TRUE
        /\ ebvOp' = "get_EBV"
        /\ ebvIn' = <<glon, glat>>
        /\ ebvCalls' = calculateEbvCalls(glon, glat, Val(north), Val(south), TRUE)
        /\ ebvOut' = calculateEbv(glon, glat, Val(north), Val(south), TRUE)
        /\ UNCHANGED <<ebvMapNorthName, ebvMapSouthName, userLoaded, catalog>>

mixinNext ==
    \/ set_ebvMapNorth
    \/ set_ebvMapSouth
    \/ load_ebvMapNorth
    \/ load_ebvMapSouth
    \/ get_EBV

\* someMap.generateEbv(glon, glat, interpolate) on the map read from a file;
\* the call has no effect on any object, so a behaviour holds one call
generateEbvCall ==
    /\ ebvOp = "none"
    /\ \E fileName \in MapFiles, glon \in Longitudes, glat \in Latitudes, interpolate \in BOOLEAN :
        /\ ebvOp' = "generateEbv"
        /\ ebvIn' = <<fileName, glon, glat, interpolate>>
        /\ ebvCalls' = <<>>
        /\ ebvOut' = <<generateEbv(readMapFits(fileName), glon, glat, interpolate)>>
        /\ UNCHANGED mixinVars

\* calculateEbv(gLon, gLat, northMap, southMap, interp) on two maps read from files
calculateEbvCall ==
    /\ ebvOp = "none"
    /\ \E northFile \in MapFiles, southFile \in MapFiles, interp \in BOOLEAN :
      \E gLon \in SeqUpTo(CatalogLons, MaxObjs), gLat \in SeqUpTo(CatalogLats, MaxObjs) :
        /\ ebvOp' = "calculateEbv"
        /\ ebvIn' = <<gLon, gLat, northFile, southFile, interp>>
        /\ ebvCalls' = calculateEbvCalls(gLon, gLat, readMapFits(northFile),
                                         readMapFits(southFile), interp)
        /\ ebvOut' = calculateEbv(gLon, gLat, readMapFits(northFile),
                                  readMapFits(southFile), interp)
        /\ UNCHANGED mixinVars

mapNext == generateEbvCall \/ calculateEbvCall

(***************************************************************************)
(* Photometry.py: the bandpasses of PhotometryBase                         *)
(*                                                                         *)
(* Bandpass and Sed are classes of other files of the package; what is     *)
(* used of them is modelled by readThroughput and setupPhiArray.           *)
(***************************************************************************)

\* the longest list of bandpass names the user loads
MaxBands == 2

\* the names get_magnitudes and get_all_mags load, lines 635 and 760
LsstBandPassNames == <<"u", "g", "r", "i", "z", "y">>

\* bandpass names and file name roots a user passes to loadBandPasses
UserBandNames == {"g", "r", "x"}

UserRoots == {None, Some("sdss_")}

\* Bandpass.readThroughput(os.path.join(bandPassDir, "%s.dat" % (bandPassRoot + w))):
\* a bandpass is known by the file it was read from
readThroughput(bandPassRoot, w) == [file |-> <<bandPassRoot, w>>]

\* Sed.setupPhiArray(bandPassList): one phi row per bandpass, in order, and the
\* step of the wavelength grid of the bandpasses (0.1 nm, in tenths)
setupPhiArray(bandpasslist) ==
    [phiarray |-> [k \in 1..Len(bandpasslist) |-> <<"phi", bandpasslist[k].file>>],
     wavelenstep |-> 1]

\* PhotometryBase.loadBandPasses, lines 55-87: the three attributes afterwards
loadBandPasses(bandPassNames, bandPassRoot) ==
    LET root == IF bandPassRoot = None THEN "total_" ELSE Val(bandPassRoot)
    IN [bandPassList |-> Some([k \in 1..Len(bandPassNames) |->
                                  readThroughput(root, bandPassNames[k])]),
        phiArray |-> None,
        waveLenStep |-> None]

\* PhotometryBase.setupPhiArray_dict, lines 43-53, on an object whose list is bpl
setupPhiArray_dict(bpl) ==
    LET r == setupPhiArray(Val(bpl))
    IN [bandPassList |-> bpl, phiArray |-> Some(r.phiarray), waveLenStep |-> Some(r.wavelenstep)]

\* lines 637-639 and 762-764: the getters load the LSST set when no list or no
\* phiArray is there
EnsureBandPasses ==
    IF bandPassList = None \/ phiArray = None
    THEN setupPhiArray_dict(loadBandPasses(LsstBandPassNames, None).bandPassList)
    ELSE [bandPassList |-> bandPassList, phiArray |-> phiArray, waveLenStep |-> waveLenStep]

\* PhotometryStars.meta_magnitudes_getter, lines 692-726: one row per bandpass
StarRows(bpl) == [k \in 1..Len(bpl) |-> <<"star", bpl[k].file>>]

\* PhotometryGalaxies.meta_magnitudes_getter, lines 474-558: the rows of the
\* total, then the bulge, the disk and the agn, each in bandpass order
GalaxyRows(bpl) ==
    [k \in 1..Len(bpl) |-> <<"total", bpl[k].file>>]
    \o [k \in 1..Len(bpl) |-> <<"bulge", bpl[k].file>>]
    \o [k \in 1..Len(bpl) |-> <<"disk", bpl[k].file>>]
    \o [k \in 1..Len(bpl) |-> <<"agn", bpl[k].file>>]

photInitWith(kind) ==
    /\ catKind = kind
    /\ bandPassList = None
    /\ phiArray = None
    /\ waveLenStep = None
    /\ userBands = None
    /\ photOp = "none"
    /\ photOut = <<>>

photInit == photInitWith("stars")

\* self.loadBandPasses(bandPassNames, bandPassRoot=...) called by the user
loadBandPassesCall ==
    \E names \in SeqUpTo(UserBandNames, MaxBands) \ {<<>>}, root \in UserRoots :
        LET r == loadBandPasses(names, root) IN
        /\ bandPassList' = r.bandPassList
        /\ phiArray' = r.phiArray
        /\ waveLenStep' = r.waveLenStep
        /\ userBands' = Some([names |-> names, root |-> root])
        /\ photOp' = "loadBandPasses"
        /\ photOut' = <<>>
        /\ UNCHANGED catKind

\* self.setupPhiArray_dict() called by the user on a loaded list
setupPhiArray_dictCall ==
    /\ bandPassList # None
    /\ LET r == setupPhiArray_dict(bandPassList) IN
        /\ phiArray' = r.phiArray
        /\ waveLenStep' = r.waveLenStep
    /\ photOp' = "setupPhiArray_dict"
    /\ photOut' = <<>>
    /\ UNCHANGED <<catKind, bandPassList, userBands>>

\* PhotometryStars.get_magnitudes, lines 751-766
get_magnitudes ==
    /\ catKind = "stars"
    /\ LET r == EnsureBandPasses IN
        /\ bandPassList' = r.bandPassList
        /\ phiArray' = r.phiArray
        /\ waveLenStep' = r.waveLenStep
        /\ photOut' = StarRows(Val(r.bandPassList))
    /\ photOp' = "get_magnitudes"
    /\ UNCHANGED <<catKind, userBands>>

\* PhotometryGalaxies.get_all_mags, lines 625-641
get_all_mags ==
    /\ catKind = "galaxies"
    /\ LET r == EnsureBandPasses IN
        /\ bandPassList' = r.bandPassList
        /\ phiArray' = r.phiArray
        /\ waveLenStep' = r.waveLenStep
        /\ photOut' = GalaxyRows(Val(r.bandPassList))
    /\ photOp' = "get_all_mags"
    /\ UNCHANGED <<catKind, userBands>>

photNext ==
    \/ loadBandPassesCall
    \/ setupPhiArray_dictCall
    \/ get_magnitudes
    \/ get_all_mags

(***************************************************************************)
(* Photometry.py: PhotometryBase.loadSeds                                  *)
(*                                                                         *)
(* A Sed object is a record on the heap.  Its flux array is known by the   *)
(* file that gave its shape and by its magnitude in the imsim bandpass;    *)
(* a flux normalisation is known by the magnitude shift it applies.        *)
(***************************************************************************)

\* the longest sedList
MaxSeds == 3

\* the SED names of a catalogue, "None" for no SED
SedNames == {"None", "sedA", "sedB"}

\* the magNorm values of a catalogue
MagNorms == {15, 17}

\* self.specFileMap: the file of each SED name
specFileMap == [sedA |-> "starSED/a.dat.gz", sedB |-> "galaxySED/b.dat.gz"]

\* the content of the SED files: wavelength grid and imsim magnitude as stored
SedFile(file) ==
    IF file = specFileMap["sedA"]
    THEN [wavelen |-> "gridA", mag |-> 10]
    ELSE [wavelen |-> "gridB", mag |-> 12]

\* Sed(): no wavelength grid, no flux
EmptySed == [wavelen |-> None, flambda |-> None, fnu |-> None, name |-> None]

\* Sed.readSED_flambda(file) on a new Sed
readSED_flambda(file) ==
    [wavelen |-> Some(SedFile(file).wavelen),
     flambda |-> Some([shape |-> file, mag |-> SedFile(file).mag]),
     fnu |-> None,
     name |-> Some(file)]

\* Sed.resampleSED(wavelen_match): the same flux on another grid
resampleSED(sed, wavelen_match) == [sed EXCEPT !.wavelen = wavelen_match]

\* Sed(wavelen=, flambda=, fnu=, name=): a Sed holding copies of the arrays
SedFromArrays(wavelen, flambda, fnu, name) ==
    IF wavelen = None THEN EmptySed
    ELSE [wavelen |-> wavelen, flambda |-> flambda, fnu |-> fnu, name |-> name]

\* Sed.calcFluxNorm(magmatch, imsimband): the normalisation that brings the
\* magnitude to magmatch
calcFluxNorm(sed, magmatch) == magmatch - Val(sed.flambda).mag

\* Sed.multiplyFluxNorm(fluxNorm): flambda is scaled, fnu is dropped
multiplyFluxNorm(sed, fluxNorm) ==
    [sed EXCEPT !.flambda = Some([Val(sed.flambda) EXCEPT !.mag = @ + fluxNorm]),
                !.fnu = None]

\* lines 123-137: the templates read for sedList[i..], with the dict, the heap
\* and the grid of the first SED read
RECURSIVE LoadTemplates(_, _, _, _, _, _)
LoadTemplates(sedList, i, heap, dict, wavelen_same, resample_same) ==
    IF i > Len(sedList) THEN [heap |-> heap, dict |-> dict]
    ELSE LET sedName == sedList[i] IN
         IF sedName \in DOMAIN dict
         THEN LoadTemplates(sedList, i + 1, heap, dict, wavelen_same, resample_same)
         ELSE LET read == readSED_flambda(specFileMap[sedName])
                  firstsed == wavelen_same = None
                  sed == IF resample_same /\ ~firstsed
                         THEN resampleSED(read, wavelen_same) ELSE read
                  same == IF resample_same /\ firstsed THEN read.wavelen ELSE wavelen_same
              IN LoadTemplates(sedList, i + 1, Append(heap, sed),
                               [n \in DOMAIN dict \cup {sedName} |->
                                   IF n = sedName THEN Len(heap) + 1 ELSE dict[n]],
                               same, resample_same)

\* the template itself handed on instead of a new Sed
NewSedFrom_alias(heap, ss) == [heap |-> heap, id |-> ss]

\* line 145: sed=Sed(wavelen=ss.wavelen,flambda=ss.flambda,fnu=ss.fnu, name=ss.name)
NewSedFrom(heap, ss) ==
    [heap |-> Append(heap, SedFromArrays(heap[ss].wavelen, heap[ss].flambda,
                                         heap[ss].fnu, heap[ss].name)),
     id |-> Len(heap) + 1]

\* lines 141-151: the Seds made for sedList[i..], each normalised to magNorm[i]
RECURSIVE ApplyMagNorms(_, _, _, _, _, _)
ApplyMagNorms(sedList, magNorm, i, heap, dict, out) ==
    IF i > Len(sedList) THEN [heap |-> heap, out |-> out]
    ELSE LET new == NewSedFrom(heap, dict[sedList[i]])
             sed == new.heap[new.id]
             heap2 == IF sedList[i] # "None"
                      THEN [new.heap EXCEPT ![new.id] =
                               multiplyFluxNorm(sed, calcFluxNorm(sed, magNorm[i]))]
                      ELSE new.heap
         IN ApplyMagNorms(sedList, magNorm, i + 1, heap2, dict, Append(out, new.id))

\* PhotometryBase.loadSeds, lines 90-153
loadSeds(sedList, magNorm, resample_same) ==
    LET start == [heap |-> <<EmptySed>>, dict |-> [n \in {"None"} |-> 1]]
        loaded == LoadTemplates(sedList, 1, start.heap, start.dict, None, resample_same)
        done == ApplyMagNorms(sedList, magNorm, 1, loaded.heap, loaded.dict, <<>>)
    IN [heap |-> done.heap, uniqueSedDict |-> loaded.dict, sedOut |-> done.out]

sedInit ==
    /\ sedOp = "none"
    /\ sedIn = <<>>
    /\ sedHeap = <<>>
    /\ uniqueSedDict = <<>>
    /\ sedOut = <<>>

\* self.loadSeds(sedList, magNorm=magNorm, resample_same=...); the objects of
\* one call are not touched by another, so a behaviour holds one call
loadSedsCall ==
    /\ sedOp = "none"
    /\ \E sedList \in SeqUpTo(SedNames, MaxSeds), resample_same \in BOOLEAN :
       \E magNorm \in [1..Len(sedList) -> MagNorms] :
          LET r == loadSeds(sedList, magNorm, resample_same) IN
          /\ sedOp' = "loadSeds"
          /\ sedIn' = [sedList |-> sedList, magNorm |-> magNorm, resample_same |-> resample_same]
          /\ sedHeap' = r.heap
          /\ uniqueSedDict' = r.uniqueSedDict
          /\ sedOut' = r.sedOut

sedNext == loadSedsCall

(***************************************************************************)
(* Photometry.py: the methods that keep no state.  A behaviour holds one   *)
(* call: its name, its arguments and its result.                           *)
(***************************************************************************)

fnInit ==
    /\ fnOp = "none"
    /\ fnIn = <<>>
    /\ fnOut = <<>>

(***************************************************************************)
(* PhotometryBase.calculatePhotometricUncertainty                          *)
(*                                                                         *)
(* Magnitudes are in units of 0.1 mag, gamma in units of 0.001, the        *)
(* variance in units of 1e-7 and the uncertainty in units of 1e-4 mag,     *)
(* rounded down.                                                           *)
(***************************************************************************)

\* the longest magnitude list of one filter
MaxMags == 2

\* sigma2Sys = 0.003*0.003, in units of 1e-7
sigma2Sys == 90

gamma == [u |-> 37, g |-> 38, r |-> 39, i |-> 39, z |-> 40, y |-> 40]

m5 == [u |-> 239, g |-> 250, r |-> 247, i |-> 240, z |-> 233, y |-> 221]

RECURSIVE TenTo(_)
TenTo(k) == IF k <= 0 THEN 1 ELSE 10 * TenTo(k - 1)

\* line 301: xx = 10**(0.4*(mm - m5[filterName])), in units of 0.01, rounded
\* down to a power of ten; below 0.01 it is 0
xx(mm, filterName) ==
    LET e == (mm - m5[filterName]) \div 25 IN
    IF e < -2 THEN 0 ELSE TenTo(e + 2)

\* lines 302-305: sigmaSquared = (0.04 - gamma)*xx + gamma*xx*xx + sigma2Sys
sigmaSquared(mm, filterName) ==
    LET x == xx(mm, filterName) IN
    (40 - gamma[filterName]) * x * 100 + gamma[filterName] * x * x + sigma2Sys

\* numpy.sqrt of a variance v given in units of 1e-7: the largest s, in units
\* of 1e-4, whose square is at most v
RECURSIVE SqrtBetween(_, _, _)
SqrtBetween(v, lo, hi) ==
    IF lo = hi THEN lo
    ELSE LET mid == (lo + hi + 1) \div 2 IN
         IF mid * mid <= v THEN SqrtBetween(v, mid, hi) ELSE SqrtBetween(v, lo, mid - 1)

sqrt(v) == SqrtBetween(v * 10, 0, 30000)

\* the magnitude is tested with >= in place of >
HasUncertainty_inclusive(mm) == mm # None /\ Val(mm) >= -9900

\* line 300: mm != None and mm>-990.0
HasUncertainty(mm) == mm # None /\ Val(mm) > -9900

\* lines 293-312: the entry of one magnitude
Uncertainty(mm, filterName) ==
    IF HasUncertainty(mm) THEN Some(sqrt(sigmaSquared(Val(mm), filterName))) ELSE None

\* PhotometryBase.calculatePhotometricUncertainty, lines 260-314
calculatePhotometricUncertainty(magnitudes) ==
    [filterName \in DOMAIN magnitudes |->
        [i \in 1..Len(magnitudes[filterName]) |->
            Uncertainty(magnitudes[filterName][i], filterName)]]

\* the filters of the magnitude columns of a catalogue
CatalogFilters == {"u", "i"}

\* the magnitudes of a catalogue: none, the -999 that marks a missing value,
\* the threshold -990.0, just above it, and magnitudes around m5
CatalogMags == {None} \cup {Some(m) : m \in {-9990, -9900, -9899, 200, 239, 265}}

calculatePhotometricUncertaintyCall ==
    /\ fnOp = "none"
    /\ \E filters \in SUBSET CatalogFilters :
       \E magnitudes \in [filters -> SeqUpTo(CatalogMags, MaxMags)] :
          /\ fnOp' = "calculatePhotometricUncertainty"
          /\ fnIn' = magnitudes
          /\ fnOut' = calculatePhotometricUncertainty(magnitudes)

(***************************************************************************)
(* PhotometryGalaxies.sum_magnitudes                                       *)
(*                                                                         *)
(* A magnitude is mm_o + k*U for an integer k, where U = 2.5*log10(2) is   *)
(* the magnitude step of a factor of two in flux; the model holds k.  A    *)
(* flux is held in units of 2^-MaxMagOffset, and log10 is rounded down to  *)
(* a whole step.                                                           *)
(***************************************************************************)

\* the largest |k| of a component magnitude
MaxMagOffset == 3

\* a float that is not a number
NaN == <<0, 0>>

\* numpy.isnan
isnan(x) == Len(x) = 2

RECURSIVE TwoTo(_)
TwoTo(k) == IF k <= 0 THEN 1 ELSE 2 * TwoTo(k - 1)

\* numpy.power(10, (mag - mm_o)/-2.5), lines 382, 385, 388
Flux(mag) == TwoTo(MaxMagOffset - mag)

\* lines 381, 384, 387: the component is not None and not NaN
IsValidMag(mag) == mag # None /\ ~isnan(mag)

FluxIfValid(mag) == IF IsValidMag(mag) THEN Flux(Val(mag)) ELSE 0

\* the agn is left out of the sum
SummedFlux_noAgn(disk, bulge, agn) == FluxIfValid(disk) + FluxIfValid(bulge)

\* lines 380-388: nn
SummedFlux(disk, bulge, agn) == FluxIfValid(disk) + FluxIfValid(bulge) + FluxIfValid(agn)

RECURSIVE Log2Floor(_)
Log2Floor(n) == IF n <= 1 THEN 0 ELSE 1 + Log2Floor(n \div 2)

\* PhotometryGalaxies.sum_magnitudes, lines 365-395
sum_magnitudes(disk, bulge, agn) ==
    LET nn == SummedFlux(disk, bulge, agn) IN
    IF nn > 0 THEN Some(MaxMagOffset - Log2Floor(nn)) ELSE None

\* the magnitudes a galaxy component can have
ComponentMags == {None, NaN} \cup {Some(k) : k \in -MaxMagOffset..MaxMagOffset}

sum_magnitudesCall ==
    /\ fnOp = "none"
    /\ \E disk \in ComponentMags, bulge \in ComponentMags, agn \in ComponentMags :
          /\ fnOp' = "sum_magnitudes"
          /\ fnIn' = [disk |-> disk, bulge |-> bulge, agn |-> agn]
          /\ fnOut' = sum_magnitudes(disk, bulge, agn)

(***************************************************************************)
(* PhotometryGalaxies: calculate_component_magnitudes, calculate_magnitudes,*)
(* meta_magnitudes_getter and get_photometric_uncertainties                *)
(*                                                                         *)
(* A catalogue is a list of rows; a row holds the galid and the components *)
(* that have an SED.  An array is the list of its rows.                    *)
(***************************************************************************)

\* the most galaxies of a catalogue
MaxGalaxies == 2

GalaxyIds == {"galA", "galB"}

ComponentSets == {{}, {"disk"}, {"bulge", "agn"}, {"disk", "bulge", "agn"}}

ComponentIndex == [bulge |-> 1, disk |-> 2, agn |-> 3]

\* Sed.manyMagCalc for the SED of one component of catalogue row r in
\* bandpass j: magnitudes that differ between components, rows and bandpasses
manyMagCalc(component, r, j) ==
    Some(((3 * ComponentIndex[component] + 5 * r + j) % (2 * MaxMagOffset + 1)) - MaxMagOffset)

\* PhotometryBase.manyMagCalc_list, lines 190-228, for one component of row r
manyMagCalc_list(cat, component, r, nBand) ==
    IF component \in cat[r].has
    THEN [j \in 1..nBand |-> manyMagCalc(component, r, j)]
    ELSE [j \in 1..nBand |-> None]

\* the last assignment to dict[name] in a loop over the rows wins
LastRowNamed(cat, name) ==
    CHOOSE r \in 1..Len(cat) :
        cat[r].id = name /\ \A q \in (r + 1)..Len(cat) : cat[q].id # name

\* PhotometryGalaxies.calculate_component_magnitudes, lines 322-363
calculate_component_magnitudes(cat, component, nBand) ==
    [name \in {cat[r].id : r \in 1..Len(cat)} |->
        manyMagCalc_list(cat, component, LastRowNamed(cat, name), nBand)]

\* PhotometryGalaxies.calculate_magnitudes, lines 397-471
calculate_magnitudes(cat, nBand) ==
    LET diskMags == calculate_component_magnitudes(cat, "disk", nBand)
        bulgeMags == calculate_component_magnitudes(cat, "bulge", nBand)
        agnMags == calculate_component_magnitudes(cat, "agn", nBand)
    IN [name \in {cat[r].id : r \in 1..Len(cat)} |->
           [total |-> [j \in 1..nBand |->
                          sum_magnitudes(diskMags[name][j], bulgeMags[name][j],
                                         agnMags[name][j])],
            bulge |-> bulgeMags[name],
            disk |-> diskMags[name],
            agn |-> agnMags[name]]]

\* failure = -999.0, line 494, in the unit of the magnitudes
failure == Some(-999)

\* lines 495-549: the rows of one component, one per bandpass
ComponentBlock(cat, magDict, component, nBand) ==
    [j \in 1..nBand |->
        [i \in 1..Len(cat) |->
            IF component = "total" \/ magDict[cat[i].id][component] # <<>>
            THEN magDict[cat[i].id][component][j]
            ELSE failure]]

\* the disk rows are stacked before the bulge rows
StackBlocks_diskFirst(total, bulge, disk, agn) == total \o disk \o bulge \o agn

\* lines 554-556: numpy.vstack of the four blocks
StackBlocks(total, bulge, disk, agn) == total \o bulge \o disk \o agn

\* PhotometryGalaxies.meta_magnitudes_getter, lines 474-558
meta_magnitudes_getter(cat, nBand) ==
    LET magDict == calculate_magnitudes(cat, nBand)
    IN StackBlocks(ComponentBlock(cat, magDict, "total", nBand),
                   ComponentBlock(cat, magDict, "bulge", nBand),
                   ComponentBlock(cat, magDict, "disk", nBand),
                   ComponentBlock(cat, magDict, "agn", nBand))

\* the column names of the @compound decorator of get_all_mags, lines 625-628:
\* a name is the bandpass and what follows it
get_all_mags_columns ==
    [k \in 1..6 |-> <<LsstBandPassNames[k], "Recalc">>]
    \o [k \in 1..6 |-> <<LsstBandPassNames[k], "Bulge">>]
    \o [k \in 1..6 |-> <<LsstBandPassNames[k], "Disk">>]
    \o [k \in 1..6 |-> <<LsstBandPassNames[k], "Agn">>]

\* the column names of the @compound decorator of
\* get_photometric_uncertainties, lines 563-570, without their sigma_
get_photometric_uncertainties_columns ==
    [k \in 1..6 |-> <<LsstBandPassNames[k], "Recalc">>]
    \o [k \in 1..6 |-> <<LsstBandPassNames[k], "Bulge">>]
    \o [k \in 1..6 |-> <<LsstBandPassNames[k], "Disk">>]
    \o [k \in 1..6 |-> <<LsstBandPassNames[k], "Agn">>]

\* calculatePhotometricUncertaintyFromColumn, lines 230-258, with the
\* columnNames of lines 576-612: the dict of a component holds, per filter,
\* the uncertainties of the magnitude column named filter + suffix
UncertaintyDict(suffix) ==
    [f \in {LsstBandPassNames[k] : k \in 1..6} |-> <<"sigma of", <<f, suffix>>>>]

\* PhotometryGalaxies.get_photometric_uncertainties, lines 571-623: the rows
get_photometric_uncertainties ==
    LET totalDict == UncertaintyDict("Recalc")
        diskDict == UncertaintyDict("Disk")
        bulgeDict == UncertaintyDict("Bulge")
        agnDict == UncertaintyDict("Agn")
    IN [k \in 1..6 |-> totalDict[LsstBandPassNames[k]]]
       \o [k \in 1..6 |-> bulgeDict[LsstBandPassNames[k]]]
       \o [k \in 1..6 |-> diskDict[LsstBandPassNames[k]]]
       \o [k \in 1..6 |-> agnDict[LsstBandPassNames[k]]]

GalaxyCatalogs == SeqUpTo([id : GalaxyIds, has : ComponentSets], MaxGalaxies)

\* the bandpass lists a galaxy catalogue computes magnitudes in: the LSST
\* list the getter loads, or a list the user loaded and set up
GalaxyBandLists == {LsstBandPassNames} \cup (SeqUpTo(UserBandNames, MaxBands) \ {<<>>})

\* get_all_mags on a catalogue whose bandpasses are set up, lines 625-641,
\* and get_photometric_uncertainties on the same catalogue
get_all_magsCall ==
    /\ fnOp = "none"
    /\ \E cat \in GalaxyCatalogs, bands \in GalaxyBandLists :
          /\ fnOp' = "get_all_mags"
          /\ fnIn' = [cat |-> cat, bands |-> bands]
          /\ fnOut' = [mags |-> meta_magnitudes_getter(cat, Len(bands)),
                       sigmas |-> get_photometric_uncertainties]

(***************************************************************************)
(* readGalfast/selectGalaxySED.py: matchToRestFrame and matchToObserved    *)
(*                                                                         *)
(* A model SED is known by its name and its rest-frame magnitudes in the   *)
(* bandpasses; magnitudes and redshifts are whole numbers of their unit.   *)
(***************************************************************************)

\* the most bandpasses of galPhot.bandPassList
MaxMatchBands == 3

\* the most catalogue objects to match
MaxMatched == 2

\* the model SEDs: their rest-frame magnitudes in up to five bandpasses
ModelSed(name) ==
    [name |-> name,
     mags |-> CASE name = "modelA" -> <<0, 0, 0, 0, 0>>
                [] name = "modelB" -> <<2, 0, 0, 2, 0>>
                [] OTHER -> <<0, 2, 2, 4, 2>>]

\* the values of sedList
SedLibraries ==
    {<<ModelSed("modelA"), ModelSed("modelB")>>,
     <<ModelSed("modelC"), ModelSed("modelB"), ModelSed("modelA")>>}

\* the magnitudes of a catalogue object in one bandpass
MatchMagValues == {0, 2}

\* galPhot.manyMagCalc_list(sed) for a model SED at redshift bin z: the
\* magnitudes in the nBand bandpasses; redshift moves bandpass j by z*(j-1)
ModelMags(sed, z, nBand) == [j \in 1..nBand |-> sed.mags[j] + z * (j - 1)]

\* rgUtils.calcBasicColors(sedList, galPhot): modelColors[filtNum][s] is the
\* colour filtNum of model s
calcBasicColors(sedList, nBand) ==
    [filtNum \in 1..(nBand - 1) |->
        [s \in 1..Len(sedList) |->
            ModelMags(sedList[s], 0, nBand)[filtNum]
                - ModelMags(sedList[s], 0, nBand)[filtNum + 1]]]

\* rgUtils.calcMagNorm: the shift that brings the model to the object's
\* magnitude in the first bandpass
calcMagNorm(objectMags, sed, z, nBand) == objectMags[1] - ModelMags(sed, z, nBand)[1]

\* lines 57-60: the colours of a catalogue object
MatchColors(mags, nBand) == [filtNum \in 1..(nBand - 1) |-> mags[filtNum] - mags[filtNum + 1]]

\* numpy.power(x, 2)
Square(x) == x * x

\* the distance is assigned in place of added to: the last colour alone
SumDistance_overwrite(modelColors, catObject, s, filtNum) ==
    IF filtNum = 0 THEN 0
    ELSE Square(modelColors[filtNum][s] - catObject[filtNum])

\* lines 65-67: distanceArray[s] after the colours 1..filtNum were added
RECURSIVE SumDistance(_, _, _, _)
SumDistance(modelColors, catObject, s, filtNum) ==
    IF filtNum = 0 THEN 0
    ELSE SumDistance(modelColors, catObject, s, filtNum - 1)
         + Square(modelColors[filtNum][s] - catObject[filtNum])

\* numpy.nanargmin of an array without NaN: the first index of the minimum
nanargmin(array) ==
    CHOOSE k \in 1..Len(array) :
        /\ \A q \in 1..Len(array) : array[k] <= array[q]
        /\ \A q \in 1..(k - 1) : array[q] > array[k]

\* selectGalaxySED.matchToRestFrame, lines 14-77
matchToRestFrame(sedList, catMags, nBand) ==
    LET modelColors == calcBasicColors(sedList, nBand)
        matched(n) ==
            LET catObject == MatchColors(catMags[n], nBand)
                distanceArray == [s \in 1..Len(sedList) |->
                                     SumDistance(modelColors, catObject, s, nBand - 1)]
            IN nanargmin(distanceArray)
    IN [sedMatches |-> [n \in 1..Len(catMags) |-> sedList[matched(n)].name],
        magNormMatches |-> [n \in 1..Len(catMags) |->
                               calcMagNorm(catMags[n], sedList[matched(n)], 0, nBand)]]

matchToRestFrameCall ==
    /\ fnOp = "none"
    /\ \E sedList \in SedLibraries, nBand \in 2..MaxMatchBands :
       \E catMags \in SeqUpTo([1..nBand -> MatchMagValues], MaxMatched) :
          /\ fnOp' = "matchToRestFrame"
          /\ fnIn' = [sedList |-> sedList, catMags |-> catMags, nBand |-> nBand]
          /\ fnOut' = matchToRestFrame(sedList, catMags, nBand)

\* the redshifts of catalogue objects, in units of half a grid step dz
CatRedshifts == {0, 1, 3}

\* numpy.round(z, dzAcc) of a redshift in half steps: the grid step it falls
\* on, a half going to the even step
RoundRedshift(zHalf) ==
    IF zHalf % 2 = 0 THEN zHalf \div 2
    ELSE IF ((zHalf - 1) \div 2) % 2 = 0 THEN (zHalf - 1) \div 2 ELSE (zHalf + 1) \div 2

\* the extCoeffs passed: one coefficient per bandpass
ExtCoeffs == <<4, 3, 2, 2, 1>>

\* rgUtils.deReddenMags(ebvVals, catMags, extCoeffs)
deReddenMags(ebvVals, catMags, extCoeffs) ==
    [n \in 1..Len(catMags) |->
        [j \in 1..Len(catMags[n]) |-> catMags[n][j] - ebvVals[n] * extCoeffs[j]]]

\* numpy.argsort: the indices in ascending order of their values
argsort(values) ==
    CHOOSE p \in [1..Len(values) -> 1..Len(values)] :
        \A a, b \in 1..Len(values) :
            a < b => \/ values[p[a]] < values[p[b]]
                     \/ values[p[a]] = values[p[b]] /\ p[a] < p[b]

\* lines 167-177: colorSet[filtNum][s] for the models redshifted to a grid step
ColorSet(sedList, redshift, nBand) ==
    [filtNum \in 1..(nBand - 1) |->
        [s \in 1..Len(sedList) |->
            ModelMags(sedList[s], redshift, nBand)[filtNum]
                - ModelMags(sedList[s], redshift, nBand)[filtNum + 1]]]

\* lines 181-183: distanceArray after the loop over the colours; every pass
\* assigns it anew, so it holds the last colour alone
ObservedDistance(colorSet, matchMags, s, nBand) ==
    Square(colorSet[nBand - 1][s] - (matchMags[nBand - 1] - matchMags[nBand]))

\* lines 178-192: the objects matched at one grid step, from position pos of
\* the slice redshiftIndex[numOn:] on, until the first that is not in the step
RECURSIVE MatchAtRedshift(_, _, _, _)
MatchAtRedshift(call, loop, redshift, pos) ==
    IF pos > Len(call.redshiftIndex) THEN loop
    ELSE LET currentIndex == call.redshiftIndex[pos]
             matchMags == call.objMags[currentIndex]
             z == RoundRedshift(call.catRedshifts[currentIndex])
         IN IF loop.lastRedshift < z /\ z <= redshift
            THEN LET colorSet == ColorSet(call.sedList, redshift, call.nBand)
                     distanceArray ==
                         [s \in 1..Len(call.sedList) |->
                             ObservedDistance(colorSet, matchMags, s, call.nBand)]
                     matchedSEDNum == nanargmin(distanceArray)
                 IN MatchAtRedshift(call,
                        [loop EXCEPT
                            !.sedMatches[currentIndex] =
                                Some(call.sedList[matchedSEDNum].name),
                            !.magNormMatches[currentIndex] =
                                Some(calcMagNorm(matchMags, call.sedList[matchedSEDNum],
                                                 redshift, call.nBand)),
                            !.numOn = @ + 1],
                        redshift, pos + 1)
            ELSE loop

\* lines 161-193: the loop over redshiftRange from one grid step to the last
RECURSIVE MatchFromRedshift(_, _, _, _)
MatchFromRedshift(call, loop, redshift, last) ==
    IF redshift > last THEN loop
    ELSE LET after == MatchAtRedshift(call, loop, redshift, loop.numOn + 1)
         IN MatchFromRedshift(call, [after EXCEPT !.lastRedshift = redshift],
                              redshift + 1, last)

\* numpy.min and numpy.max, lines 148-149
MinOf(S) == CHOOSE x \in S : \A y \in S : x <= y

MaxOf(S) == CHOOSE x \in S : \A y \in S : y <= x

\* selectGalaxySED.matchToObserved, lines 79-197
matchToObserved(sedList, ebvVals, catRedshifts, catMags, nBand, extinction, extCoeffs) ==
    LET objMags == IF extinction THEN deReddenMags(ebvVals, catMags, extCoeffs) ELSE catMags
        rounded == {RoundRedshift(catRedshifts[n]) : n \in 1..Len(catRedshifts)}
        call == [sedList |-> sedList, objMags |-> objMags, catRedshifts |-> catRedshifts,
                 nBand |-> nBand, redshiftIndex |-> argsort(catRedshifts)]
        start == [sedMatches |-> [n \in 1..Len(catRedshifts) |-> None],
                  magNormMatches |-> [n \in 1..Len(catRedshifts) |-> None],
                  numOn |-> 0,
                  lastRedshift |-> -100]
        done == MatchFromRedshift(call, start, MinOf(rounded) - 1, MaxOf(rounded) + 1)
    IN [sedMatches |-> done.sedMatches, magNormMatches |-> done.magNormMatches]

matchToObservedCall ==
    /\ fnOp = "none"
    /\ \E sedList \in SedLibraries, nBand \in 2..MaxMatchBands, extinction \in BOOLEAN :
       \E catMags \in SeqUpTo([1..nBand -> MatchMagValues], MaxMatched) \ {<<>>} :
       \E catRedshifts \in [1..Len(catMags) -> CatRedshifts],
          ebvVals \in [1..Len(catMags) -> IF extinction THEN {0, 1} ELSE {0}] :
          /\ fnOp' = "matchToObserved"
          /\ fnIn' = [sedList |-> sedList, catMags |-> catMags, nBand |-> nBand,
                      catRedshifts |-> catRedshifts, ebvVals |-> ebvVals,
                      extinction |-> extinction]
          /\ fnOut' = matchToObserved(sedList, ebvVals, catRedshifts, catMags, nBand,
                                      extinction, ExtCoeffs)

(***************************************************************************)
(* PhotometryBase.applyAvAndRedshift                                       *)
(*                                                                         *)
(* The flux of a Sed is known by the list of what was done to it, in       *)
(* order; a wavelength grid by its name.  Av is in tenths of a magnitude,  *)
(* a redshift in thousandths.                                              *)
(***************************************************************************)

\* the longest sedList handed to applyAvAndRedshift
MaxAvSeds == 2

\* the internalAv values of a catalogue
AvValues == {1, 3}

\* the redshifts of a catalogue
ZValues == {0, 507, 1234}

\* a Sed as loadSeds hands it on: read from the file of sedName, or empty
LoadedSed(sedName) ==
    IF sedName = "None" THEN EmptySed
    ELSE [readSED_flambda(specFileMap[sedName]) EXCEPT
             !.flambda = Some(<<[op |-> "read", on |-> specFileMap[sedName],
                                 amount |-> 0, dimming |-> FALSE]>>)]

\* Bandpass.wavelen: the grid of the file the bandpass was read from
BandpassWavelen(bp) == bp.file[1] \o bp.file[2] \o ".dat"

\* Sed.setupCCMab(): the a and b of the dust law on the Sed's own grid
setupCCMab(sed) == Val(sed.wavelen)

\* Sed.addCCMDust(a_int, b_int, A_v=): the flux is dimmed, the grid is kept
addCCMDust(sed, ab, A_v) ==
    [sed EXCEPT !.flambda = Some(Append(Val(@), [op |-> "addCCMDust", on |-> ab,
                                                   amount |-> A_v, dimming |-> FALSE])),
                !.fnu = None]

\* Sed.redshiftSED(redshift, dimming=): grid and flux are shifted
redshiftSED(sed, redshift, dimming) ==
    [sed EXCEPT !.wavelen = Some(Val(@) \o "*(1+z)"),
                !.flambda = Some(Append(Val(@), [op |-> "redshiftSED", on |-> Val(sed.wavelen),
                                                   amount |-> redshift, dimming |-> dimming])),
                !.fnu = None]

\* '%.2f' % z, line 187, for z >= 0 in thousandths
FormatZ(z) ==
    LET h == (z + 5) \div 10
    IN ToString(h \div 100) \o "." \o ToString((h \div 10) % 10) \o ToString(h % 10)

\* the redshift applied before the dust
ApplyToSed_redshiftFirst(sed, i, internalAv, redshift, ab, wavelen_match) ==
    LET shifted == IF redshift # None
                   THEN LET z == Val(redshift)[i]
                            moved == redshiftSED(sed, z, TRUE)
                            named == [moved EXCEPT !.name = Some(Val(@) \o "_Z" \o FormatZ(z))]
                        IN resampleSED(named, wavelen_match)
                   ELSE sed
    IN IF internalAv # None THEN addCCMDust(shifted, ab, Val(internalAv)[i]) ELSE shifted

\* lines 175-188: what the loop does to sedList[i], a Sed with a grid
ApplyToSed(sed, i, internalAv, redshift, ab, wavelen_match) ==
    LET dusted == IF internalAv # None THEN addCCMDust(sed, ab, Val(internalAv)[i]) ELSE sed
    IN IF redshift # None
       THEN LET z == Val(redshift)[i]
                moved == redshiftSED(dusted, z, TRUE)
                named == [moved EXCEPT !.name = Some(Val(@) \o "_Z" \o FormatZ(z))]
            IN resampleSED(named, wavelen_match)
       ELSE dusted

\* lines 171-188: the loop from sedList[i] on; wavelen_sampled is [] (None
\* here) or the grid a_int and b_int were set up on
RECURSIVE ApplyFrom(_, _, _, _, _, _, _)
ApplyFrom(sedList, i, internalAv, redshift, wavelen_sampled, ab, wavelen_match) ==
    IF i > Len(sedList) THEN sedList
    ELSE LET sed == sedList[i] IN
         IF sed.wavelen = None
         THEN ApplyFrom(sedList, i + 1, internalAv, redshift, wavelen_sampled, ab, wavelen_match)
         ELSE LET setup == internalAv # None
                           /\ (wavelen_sampled = None \/ sed.wavelen # wavelen_sampled)
                  ab2 == IF setup THEN Some(setupCCMab(sed)) ELSE ab
                  sampled2 == IF setup THEN sed.wavelen ELSE wavelen_sampled
                  done == ApplyToSed(sed, i, internalAv, redshift,
                                     IF ab2 = None THEN "" ELSE Val(ab2), wavelen_match)
              IN ApplyFrom([sedList EXCEPT ![i] = done], i + 1, internalAv, redshift,
                           sampled2, ab2, wavelen_match)

\* PhotometryBase.applyAvAndRedshift, lines 155-188: the Seds of sedList
\* afterwards and what the method returns
applyAvAndRedshift(bpl, sedList, internalAv, redshift) ==
    [sedList |-> ApplyFrom(sedList, 1, internalAv, redshift, None, None,
                           Some(BandpassWavelen(Val(bpl)[1]))),
     returned |-> None]

\* self.applyAvAndRedshift(sedList, internalAv=, redshift=) on an object
\* whose bandpasses are loaded, with Seds made by loadSeds
applyAvAndRedshiftCall ==
    /\ fnOp = "none"
    /\ \E sedNames \in SeqUpTo(SedNames, MaxAvSeds), names \in {<<"g">>, <<"r", "g">>} :
       \E internalAv \in {None} \cup {Some(a) : a \in [1..Len(sedNames) -> AvValues]},
          redshift \in {None} \cup {Some(z) : z \in [1..Len(sedNames) -> ZValues]} :
          LET bpl == loadBandPasses(names, None).bandPassList
              sedList == [k \in 1..Len(sedNames) |-> LoadedSed(sedNames[k])]
          IN /\ fnOp' = "applyAvAndRedshift"
             /\ fnIn' = [bandPassList |-> bpl, sedList |-> sedList,
                         internalAv |-> internalAv, redshift |-> redshift]
             /\ fnOut' = applyAvAndRedshift(bpl, sedList, internalAv, redshift)

fnNext ==
    \/ calculatePhotometricUncertaintyCall
    \/ sum_magnitudesCall
    \/ get_all_magsCall
    \/ matchToRestFrameCall
    \/ matchToObservedCall
    \/ applyAvAndRedshiftCall

(***************************************************************************)
(* BandpassDict, as tests/testBandpassDict.py uses it: an ordered mapping  *)
(* from bandpass names to Bandpass objects with read-only phiArray,        *)
(* wavelenStep and wavelenMatch, and the magnitude and flux lists of an    *)
(* Sed or of a list of Seds                                                *)
(***************************************************************************)

\* the most bandpasses of a BandpassDict
MaxDictBands == 3

\* the names getListOfBandpasses makes: a filter name, with a 0 appended
\* while the name is taken
DictNames == {"u", "g", "u0"}

\* the throughput files the bandpasses of a dict are read from
DictBandpasses == {readThroughput("total_", "u"), readThroughput("total_", "g")}

\* the Seds magnitudes are asked for
DictSeds == {1, 2}

DictSedLists == {<<1>>, <<2, 1>>}

\* only neighbouring names are compared
HasDuplicate_adjacent(nameList) ==
    \E a \in 1..(Len(nameList) - 1) : nameList[a] = nameList[a + 1]

\* some name occurs twice in the list
HasDuplicate(nameList) ==
    \E a, b \in 1..Len(nameList) : a # b /\ nameList[a] = nameList[b]

\* the keys come out last first
KeysInOrder_reversed(nameList) ==
    [k \in 1..Len(nameList) |-> nameList[Len(nameList) + 1 - k]]

\* the keys of the dict, in the order they were given
KeysInOrder(nameList) == nameList

\* BandpassDict(bandpassList, bandpassNameList): the object built, or the
\* exception raised
BandpassDict(bandpassList, bandpassNameList) ==
    IF HasDuplicate(bandpassNameList)
    THEN [obj |-> None,
          raised |-> Some("RuntimeError"),
          message |-> <<"a bandpass name", "occurs twice", "in bandpassNameList">>]
    ELSE LET keys == KeysInOrder(bandpassNameList)
             phi == setupPhiArray(bandpassList)
         IN [obj |-> Some([keys |-> keys,
                           byName |-> [n \in {keys[k] : k \in 1..Len(keys)} |->
                                          bandpassList[CHOOSE k \in 1..Len(keys) :
                                                          bandpassNameList[k] = n]],
                           phiArray |-> phi.phiarray,
                           wavelenStep |-> phi.wavelenstep,
                           wavelenMatch |-> "grid of the first bandpass"]),
             raised |-> None,
             message |-> <<>>]

\* len(d), iter(d), d.keys(), d.values() and d[name]
DictLen(d) == Len(d.keys)

DictIter(d) == d.keys

DictKeys(d) == d.keys

DictValues(d) == [k \in 1..Len(d.keys) |-> d.byName[d.keys[k]]]

\* Sed.calcMag(bandpass) and Sed.calcFlux(bandpass): numbers that differ
\* between Seds and between throughput files
BandNumber(bp) == CHOOSE k \in 1..6 : LsstBandPassNames[k] = bp.file[2]

calcMag(sed, bp) == Some(10 * sed + BandNumber(bp))

calcFlux(sed, bp) == Some(100 * sed + BandNumber(bp))

\* the magnitude, or the flux, of an Sed in a bandpass
MagOrFlux(flux, sed, bp) == IF flux THEN calcFlux(sed, bp) ELSE calcMag(sed, bp)

\* the entries that were not asked for are computed all the same
ListForSed_allComputed(d, sed, indices, flux) ==
    [k \in 1..DictLen(d) |-> MagOrFlux(flux, sed, DictValues(d)[k])]

\* magListForSed / fluxListForSed: one entry per bandpass of the dict; with
\* indices, the entries not listed are NaN
ListForSed(d, sed, indices, flux) ==
    [k \in 1..DictLen(d) |->
        IF indices = None \/ (k - 1) \in Val(indices)
        THEN MagOrFlux(flux, sed, DictValues(d)[k])
        ELSE NaN]

\* magListForSedList / fluxListForSedList: one row per Sed
ListForSedList(d, sedList, indices, flux) ==
    [s \in 1..Len(sedList) |-> ListForSed(d, sedList[s], indices, flux)]

bdInit ==
    /\ bdObj = None
    /\ bdArgs = <<>>
    /\ bdOp = "none"
    /\ bdRaised = None
    /\ bdOut = <<>>

\* testDict = BandpassDict(bpList, nameList)
BandpassDictCall ==
    /\ bdOp = "none"
    /\ \E nameList \in SeqUpTo(DictNames, MaxDictBands) \ {<<>>} :
       \E bpList \in [1..Len(nameList) -> DictBandpasses] :
          LET r == BandpassDict(bpList, nameList) IN
          /\ bdObj' = r.obj
          /\ bdArgs' = [bandpassList |-> bpList, bandpassNameList |-> nameList]
          /\ bdOp' = "BandpassDict"
          /\ bdRaised' = r.raised
          /\ bdOut' = r.message

\* testDict.phiArray = ..., testDict.wavelenStep = ..., testDict.wavelenMatch = ...
\* the properties have no setter
DictSetAttr ==
    /\ bdObj # None
    /\ \E attr \in {"phiArray", "wavelenStep", "wavelenMatch"} :
          /\ bdOp' = "setattr"
          /\ bdOut' = <<attr>>
          /\ bdRaised' = Some("AttributeError")
          /\ UNCHANGED <<bdObj, bdArgs>>

\* testDict.magListForSed(sed, indices=...) and fluxListForSed
ListForSedCall ==
    /\ bdObj # None
    /\ \E sed \in DictSeds, flux \in BOOLEAN,
          indices \in {None} \cup {Some(S) : S \in SUBSET (0..(DictLen(Val(bdObj)) - 1))} :
          /\ bdOp' = "listForSed"
          /\ bdOut' = [sed |-> sed, indices |-> indices, flux |-> flux,
                       list |-> ListForSed(Val(bdObj), sed, indices, flux)]
          /\ bdRaised' = None
          /\ UNCHANGED <<bdObj, bdArgs>>

\* testDict.magListForSedList(sedList, indices=...) and fluxListForSedList
ListForSedListCall ==
    /\ bdObj # None
    /\ \E sedList \in DictSedLists, flux \in BOOLEAN,
          indices \in {None} \cup {Some(S) : S \in SUBSET (0..(DictLen(Val(bdObj)) - 1))} :
          /\ bdOp' = "listForSedList"
          /\ bdOut' = [sedList |-> sedList, indices |-> indices, flux |-> flux,
                       list |-> ListForSedList(Val(bdObj), sedList, indices, flux)]
          /\ bdRaised' = None
          /\ UNCHANGED <<bdObj, bdArgs>>

bdNext ==
    \/ BandpassDictCall
    \/ DictSetAttr
    \/ ListForSedCall
    \/ ListForSedListCall

(***************************************************************************)
(* The specifications                                                      *)
(***************************************************************************)

otherVars == <<ppVars, mixinVars, callVars, photVars, sedVars, bdVars>>

Init == ppInit /\ ebvInit /\ photInit /\ sedInit /\ fnInit /\ bdInit

Next ==
    \/ ppNext /\ UNCHANGED <<mixinVars, callVars, photVars, sedVars, fnVars, bdVars>>
    \/ mixinNext /\ UNCHANGED <<ppVars, photVars, sedVars, fnVars, bdVars>>
    \/ mapNext /\ UNCHANGED <<ppVars, photVars, sedVars, fnVars, bdVars>>
    \/ photNext /\ UNCHANGED <<ppVars, mixinVars, callVars, sedVars, fnVars, bdVars>>
    \/ sedNext /\ UNCHANGED <<ppVars, mixinVars, callVars, photVars, fnVars, bdVars>>
    \/ fnNext /\ UNCHANGED otherVars
    \/ bdNext /\ UNCHANGED <<ppVars, mixinVars, callVars, photVars, sedVars, fnVars>>

Spec == Init /\ [][Next]_vars

\* one PhotometricParameters object
SpecPP == Init /\ [][ppNext /\ UNCHANGED <<mixinVars, callVars, photVars, sedVars, fnVars, bdVars>>]_vars

InitEbvMixin == ppInit /\ photInit /\ sedInit /\ fnInit /\ bdInit /\ \E cat \in Catalogs : ebvInitWith(cat)

\* one catalogue object with the EBV mixin
SpecEbvMixin == InitEbvMixin /\ [][mixinNext /\ UNCHANGED <<ppVars, photVars, sedVars, fnVars, bdVars>>]_vars

\* calls of EbvMap.generateEbv and EBVmixin.calculateEbv
SpecEbvMap == Init /\ [][mapNext /\ UNCHANGED <<ppVars, photVars, sedVars, fnVars, bdVars>>]_vars

InitPhot == ppInit /\ ebvInit /\ sedInit /\ fnInit /\ bdInit /\ \E kind \in {"stars", "galaxies"} : photInitWith(kind)

\* one catalogue object with PhotometryStars or PhotometryGalaxies
SpecPhot ==
    InitPhot /\ [][photNext /\ UNCHANGED <<ppVars, mixinVars, callVars, sedVars, fnVars, bdVars>>]_vars

\* calls of PhotometryBase.loadSeds
SpecLoadSeds ==
    Init /\ [][sedNext /\ UNCHANGED <<ppVars, mixinVars, callVars, photVars, fnVars, bdVars>>]_vars

\* one BandpassDict
SpecBandpassDict ==
    Init /\ [][bdNext /\ UNCHANGED <<ppVars, mixinVars, callVars, photVars, sedVars, fnVars>>]_vars

\* calls of PhotometryBase.calculatePhotometricUncertainty
SpecUncertainty == Init /\ [][calculatePhotometricUncertaintyCall /\ UNCHANGED otherVars]_vars

\* calls of PhotometryGalaxies.sum_magnitudes
SpecSumMagnitudes == Init /\ [][sum_magnitudesCall /\ UNCHANGED otherVars]_vars

\* calls of the getters of PhotometryGalaxies
SpecGalaxyMags == Init /\ [][get_all_magsCall /\ UNCHANGED otherVars]_vars

\* calls of selectGalaxySED.matchToRestFrame
SpecMatchRestFrame == Init /\ [][matchToRestFrameCall /\ UNCHANGED otherVars]_vars

\* calls of selectGalaxySED.matchToObserved
SpecMatchObserved == Init /\ [][matchToObservedCall /\ UNCHANGED otherVars]_vars

\* calls of PhotometryBase.applyAvAndRedshift
SpecApplyAv == Init /\ [][applyAvAndRedshiftCall /\ UNCHANGED otherVars]_vars

(***************************************************************************)
(* Claims about PhotometricParameters (checked under SpecPP)               *)
(***************************************************************************)

\* the bandpass arguments for which __init__ finds defaults
C1_KnownBandpassArgs == {None} \cup {Some(b) : b \in {"u", "g", "r", "i", "z", "y", "any"}}

\* the parameters neither passed explicitly nor covered by a default
C1_Unset == {p \in ParamNames : ppArgs[p] = None /\ ppArgBandpass \notin C1_KnownBandpassArgs}

C2_LsstBandpassArgs == {None} \cup {Some(b) : b \in {"u", "g", "r", "i", "z", "y"}}

\* C2: for a bandpass argument in {None,u,g,r,i,z,y} and any subset of
\* explicitly passed parameters, the object is built and each property returns
\* the explicit value if one was given and otherwise the LSST default of the
\* bandpass, None reading the r-band values ('any' equals 'r' in every table);
\* the bandpass property returns the constructor argument, None included.
C2_DefaultsAndExplicit ==
    (ppState # "none" /\ ppArgBandpass \in C2_LsstBandpassArgs) =>
        /\ ppState = "built"
        /\ \A p \in ParamNames :
              Property(p) = IF ppArgs[p] # None
                            THEN ppArgs[p]
                            ELSE Some(defaults[p][IF ppArgBandpass = None
                                                  THEN "r" ELSE Val(ppArgBandpass)])
        /\ Property("bandpass") = ppArgBandpass
        /\ \A p \in ParamNames : defaults[p]["any"] = defaults[p]["r"]

\* an object built with bandpass None, nexp passed by hand and sigmaSys defaulted
C2_Witness ==
    /\ ppState = "built"
    /\ ppArgBandpass = None
    /\ ppArgs["nexp"] = Some(7)
    /\ ppArgs["sigmaSys"] = None
    /\ Property("nexp") = Some(7)
    /\ Property("sigmaSys") = Some(50)
    /\ Property("bandpass") = None

\* C3: the object is immutable after construction: every attempt to assign
\* one of its ten attributes raises RuntimeError, and after any sequence of
\* attempts every property still returns what it returned after construction.
C3_Immutable ==
    ppState = "built" =>
        /\ AllProperties = ppAtInit
        /\ ppLastSet # None => ppRaised = Some("RuntimeError")

\* an assignment to gain was attempted on a built object
C3_Witness ==
    /\ ppState = "built"
    /\ ppLastSet = Some("gain")
    /\ ppRaised = Some("RuntimeError")
    /\ ppArgs["gain"] = None
    /\ Property("gain") = Some(23)

(***************************************************************************)
(* Claims about EbvMap and EBVmixin.calculateEbv (checked under SpecEbvMap)*)
(***************************************************************************)

\* C4: with interpolate=True, a query whose pixel coordinates are exactly
\* (ix,iy) returns data[iy][ix], the value of the non-interpolated lookup, for
\* every pixel of the map, the last column and the last row included.
C4_ExactPixelInterpolated ==
    (ebvOp = "generateEbv" /\ ebvIn[4]) =>
        LET map == readMapFits(ebvIn[1])
            xy == skyToXY(ebvIn[2], ebvIn[3])
            ix == xy[1] \div SubPixel
            iy == xy[2] \div SubPixel
        IN (/\ xy[1] >= 0 /\ xy[1] % SubPixel = 0
            /\ xy[2] >= 0 /\ xy[2] % SubPixel = 0)
           => /\ ebvOut[1] = map.data[iy][ix] * EbvUnit
              /\ ebvOut[1] = generateEbv(map, ebvIn[2], ebvIn[3], FALSE)

\* C5: for equally long gLon and gLat, calculateEbv returns one value per
\* (lon,lat) pair in input order; the i-th value comes from southMap when
\* gLat[i] <= 0 (the equator included) and from northMap otherwise, with the
\* interp flag passed on; the other map is not queried for that pair.
C5_HemisphereDispatch ==
    (ebvOp = "calculateEbv" /\ Len(ebvIn[1]) = Len(ebvIn[2])) =>
        LET gLon == ebvIn[1]
            gLat == ebvIn[2]
            northMap == readMapFits(ebvIn[3])
            southMap == readMapFits(ebvIn[4])
            interp == ebvIn[5]
        IN /\ Len(ebvOut) = Len(gLon)
           /\ Len(ebvCalls) = Len(gLon)
           /\ \A k \in 1..Len(gLon) :
                 /\ ebvCalls[k].map = IF gLat[k] <= 0 THEN "south" ELSE "north"
                 /\ ebvCalls[k].lon = gLon[k]
                 /\ ebvCalls[k].lat = gLat[k]
                 /\ ebvCalls[k].interpolate = interp
                 /\ ebvOut[k] = generateEbv(IF gLat[k] <= 0 THEN southMap ELSE northMap,
                                            gLon[k], gLat[k], interp)

\* a call with an object on the equator and one north of it, on two different maps
C5_Witness ==
    /\ ebvOp = "calculateEbv"
    /\ ebvIn[1] = <<1, 0>>
    /\ ebvIn[2] = <<0, 1>>
    /\ ebvIn[3] # ebvIn[4]
    /\ ebvIn[5]

C6_SetTakesEffect ==
    (ebvOp = "get_EBV" /\ ~userLoaded) =>
        \A k \in 1..Len(ebvOut) :
            ebvOut[k] = generateEbv(readMapFits(IF catalog.glat[k] <= 0
                                                THEN ebvMapSouthName ELSE ebvMapNorthName),
                                    catalog.glon[k], catalog.glat[k], TRUE)

\* C7: no map file is read before the first get_EBV on an object; after that
\* first call both maps are loaded; over any sequence of get_EBV calls (and
\* set_ calls between them) each of the two maps is read at most once.
C7_LazyCached ==
    ~userLoaded =>
        /\ ~ebvAsked => /\ readsNorth = 0 /\ readsSouth = 0
                        /\ ebvMapNorth = None /\ ebvMapSouth = None
        /\ ebvAsked => /\ readsNorth = 1 /\ readsSouth = 1
                       /\ ebvMapNorth # None /\ ebvMapSouth # None

\* a get_EBV that found the maps of an earlier get_EBV: the northern name was
\* changed after that map had been loaded
C7_Witness ==
    /\ ~userLoaded
    /\ ebvOp = "get_EBV"
    /\ ebvMapNorth # None
    /\ Val(ebvMapNorth).fileName # ebvMapNorthName
    /\ readsNorth = 1
    /\ readsSouth = 1
    /\ Len(ebvOut) = 2

(***************************************************************************)
(* Claims about the bandpasses of PhotometryBase (checked under SpecPhot)  *)
(***************************************************************************)

\* C8: when loadBandPasses(names) returns, bandPassList holds one bandpass per
\* name in the given order, and phiArray and waveLenStep are set (not None)
\* for those bandpasses.
C8_LoadSetsPhiArray ==
    photOp = "loadBandPasses" =>
        LET names == Val(userBands).names
            root == IF Val(userBands).root = None THEN "total_" ELSE Val(Val(userBands).root)
        IN /\ bandPassList # None
           /\ Len(Val(bandPassList)) = Len(names)
           /\ \A k \in 1..Len(names) : Val(bandPassList)[k].file = <<root, names[k]>>
           /\ phiArray # None
           /\ waveLenStep # None

\* C9: after loadBandPasses(customNames) was called on a catalogue object, a
\* following get_magnitudes or get_all_mags computes magnitudes over that
\* custom list and does not replace it with the LSST u,g,r,i,z,y set; the
\* getters load the LSST set only when no bandpasses were loaded before.
C9_CustomBandPassesKept ==
    photOp \in {"get_magnitudes", "get_all_mags"} =>
        LET nBand == Len(Val(bandPassList))
            expected == IF userBands = None
                        THEN [k \in 1..6 |-> <<"total_", LsstBandPassNames[k]>>]
                        ELSE [k \in 1..Len(Val(userBands).names) |->
                                 <<IF Val(userBands).root = None
                                   THEN "total_" ELSE Val(Val(userBands).root),
                                   Val(userBands).names[k]>>]
        IN /\ [k \in 1..nBand |-> Val(bandPassList)[k].file] = expected
           /\ [k \in 1..nBand |-> photOut[k][2]] = expected

(***************************************************************************)
(* Claims about PhotometryBase.loadSeds (checked under SpecLoadSeds)       *)
(***************************************************************************)

\* C10: loadSeds returns one Sed per entry of sedList, in order; entries that
\* name the same SED file yield separate Sed objects, each normalised to its
\* own magNorm[i]; normalising one entry changes neither another entry nor
\* the cached template in uniqueSedDict; an entry named "None" yields an
\* empty Sed that is not normalised.
C10_OneSedPerEntry ==
    sedOp = "loadSeds" =>
        LET sedList == sedIn.sedList
            magNorm == sedIn.magNorm
            templates == {uniqueSedDict[n] : n \in DOMAIN uniqueSedDict}
        IN /\ Len(sedOut) = Len(sedList)
           /\ \A j, k \in 1..Len(sedOut) : j # k => sedOut[j] # sedOut[k]
           /\ \A k \in 1..Len(sedOut) : sedOut[k] \notin templates
           /\ \A k \in 1..Len(sedList) :
                 LET sed == sedHeap[sedOut[k]] IN
                 IF sedList[k] = "None"
                 THEN sed.wavelen = None /\ sed.flambda = None /\ sed.fnu = None
                 ELSE /\ sed.name = Some(specFileMap[sedList[k]])
                      /\ sed.wavelen # None
                      /\ Val(sed.flambda).shape = specFileMap[sedList[k]]
                      /\ Val(sed.flambda).mag = magNorm[k]
           /\ \A n \in DOMAIN uniqueSedDict :
                 LET t == sedHeap[uniqueSedDict[n]] IN
                 IF n = "None" THEN t = EmptySed
                 ELSE /\ t.name = Some(specFileMap[n])
                      /\ Val(t.flambda) = [shape |-> specFileMap[n],
                                           mag |-> SedFile(specFileMap[n]).mag]

\* a call with the same SED file twice under different magNorms, and a "None"
C10_Witness ==
    /\ sedOp = "loadSeds"
    /\ sedIn.sedList = <<"sedA", "None", "sedA">>
    /\ sedIn.magNorm = <<15, 17, 17>>
    /\ Len(sedOut) = 3
    /\ Val(sedHeap[sedOut[1]].flambda).mag = 15
    /\ Val(sedHeap[sedOut[3]].flambda).mag = 17
    /\ sedHeap[sedOut[2]] = EmptySed

(***************************************************************************)
(* Claims about the methods that keep no state                             *)
(***************************************************************************)

\* the square of an uncertainty s is the variance v of the magnitude, to the
\* resolution of s
C11_IsSqrtOf(s, v) == s * s <= v * 10 /\ v * 10 < (s + 1) * (s + 1)

\* C11: calculatePhotometricUncertainty returns a dict with exactly the
\* filter keys of its input, each mapped to a list as long as the input list;
\* entry i is None exactly when magnitude i is None or not greater than
\* -990.0, and otherwise a number that depends only on that magnitude and the
\* filter's gamma and m5 (the square root of (0.04-gamma)*x + gamma*x*x +
\* sigma2Sys with x = 10**(0.4*(m - m5))).
C11_UncertaintyPerMagnitude ==
    fnOp = "calculatePhotometricUncertainty" =>
        /\ DOMAIN fnOut = DOMAIN fnIn
        /\ \A f \in DOMAIN fnIn :
              /\ f \in {"u", "g", "r", "i", "z", "y"}
              /\ Len(fnOut[f]) = Len(fnIn[f])
              /\ \A i \in 1..Len(fnIn[f]) :
                    LET mm == fnIn[f][i] IN
                    /\ fnOut[f][i] = None <=> (mm = None \/ Val(mm) <= -9900)
                    /\ fnOut[f][i] # None =>
                          /\ C11_IsSqrtOf(Val(fnOut[f][i]), sigmaSquared(Val(mm), f))
                          /\ Val(fnOut[f][i]) >= 30
                          /\ \A j \in 1..Len(fnIn[f]) :
                                fnIn[f][j] = mm => fnOut[f][j] = fnOut[f][i]

\* two filters; a missing magnitude, the threshold itself and a magnitude at
\* m5 of the u filter
C11_Witness ==
    /\ fnOp = "calculatePhotometricUncertainty"
    /\ DOMAIN fnIn = {"u", "i"}
    /\ fnIn["u"] = <<Some(-9900), Some(239)>>
    /\ fnIn["i"] = <<None, Some(-9899)>>
    /\ fnOut["u"][1] = None /\ fnOut["u"][2] # None
    /\ fnOut["i"][1] = None /\ fnOut["i"][2] = Some(30)

\* the components of a sum_magnitudes call that are neither None nor NaN
C12_ValidComponents ==
    {c \in {"disk", "bulge", "agn"} : fnIn[c] # None /\ fnIn[c] # NaN}

RECURSIVE C12_FluxSum(_)
C12_FluxSum(S) ==
    IF S = {} THEN 0
    ELSE LET c == CHOOSE c \in S : TRUE IN Flux(Val(fnIn[c])) + C12_FluxSum(S \ {c})

\* C12: sum_magnitudes returns None exactly when each of disk, bulge and agn
\* is None or NaN; otherwise it returns the magnitude of the summed fluxes of
\* the valid components only: with a single valid component m the result is
\* m, and the total is never fainter (larger) than any valid component.
C12_SumOfValidComponents ==
    fnOp = "sum_magnitudes" =>
        /\ fnOut = None <=> C12_ValidComponents = {}
        /\ fnOut # None =>
              /\ Flux(Val(fnOut)) <= C12_FluxSum(C12_ValidComponents)
              /\ C12_FluxSum(C12_ValidComponents) < 2 * Flux(Val(fnOut))
              /\ \A c \in C12_ValidComponents : Val(fnOut) <= Val(fnIn[c])
              /\ \A c \in C12_ValidComponents :
                    C12_ValidComponents = {c} => fnOut = fnIn[c]

\* a galaxy whose bulge is NaN and whose disk and agn are valid, and the total
\* is brighter than both
C12_Witness ==
    /\ fnOp = "sum_magnitudes"
    /\ fnIn.bulge = NaN
    /\ fnIn.disk = Some(1)
    /\ fnIn.agn = Some(1)
    /\ fnOut = Some(0)

\* the components in the order of the declared column names, with the
\* ending of their column names
C13_Blocks == <<"total", "bulge", "disk", "agn">>

C13_Suffix == [total |-> "Recalc", bulge |-> "Bulge", disk |-> "Disk", agn |-> "Agn"]

\* the magnitude of a component of galaxy idNames[i] in bandpass j
C13_Magnitude(component, i, j) ==
    LET cat == fnIn.cat
        r == CHOOSE r \in 1..Len(cat) :
                cat[r].id = cat[i].id /\ \A q \in (r + 1)..Len(cat) : cat[q].id # cat[i].id
        of(c) == IF c \in cat[r].has THEN manyMagCalc(c, r, j) ELSE None
    IN IF component = "total" THEN sum_magnitudes(of("disk"), of("bulge"), of("agn"))
       ELSE of(component)

\* C13: the array get_all_mags returns has 4*nBand rows in the order of its
\* declared column names: all bands of the total, then of the bulge, the disk
\* and the agn, each block in bandPassList order, and column i belongs to
\* idNames[i]; get_photometric_uncertainties returns its rows in the order of
\* its declared sigma_* column names.
C13_RowOrder ==
    fnOp = "get_all_mags" =>
        LET nBand == Len(fnIn.bands)
            nGal == Len(fnIn.cat)
        IN /\ Len(fnOut.mags) = 4 * nBand
           /\ \A b \in 1..4, j \in 1..nBand :
                 LET row == fnOut.mags[(b - 1) * nBand + j] IN
                 /\ Len(row) = nGal
                 /\ \A i \in 1..nGal : row[i] = C13_Magnitude(C13_Blocks[b], i, j)
                 /\ fnIn.bands = LsstBandPassNames =>
                       get_all_mags_columns[(b - 1) * nBand + j]
                           = <<fnIn.bands[j], C13_Suffix[C13_Blocks[b]]>>
           /\ Len(fnOut.sigmas) = Len(get_photometric_uncertainties_columns)
           /\ \A k \in 1..Len(fnOut.sigmas) :
                 fnOut.sigmas[k] = <<"sigma of", get_photometric_uncertainties_columns[k]>>

\* two galaxies, the first with a disk only and the second with a bulge and an
\* agn, in the six LSST bandpasses: the first disk row holds the disk magnitude
\* of the first galaxy and None for the second
C13_Witness ==
    /\ fnOp = "get_all_mags"
    /\ fnIn.bands = LsstBandPassNames
    /\ Len(fnIn.cat) = 2
    /\ fnIn.cat[1] = [id |-> "galA", has |-> {"disk"}]
    /\ fnIn.cat[2] = [id |-> "galB", has |-> {"bulge", "agn"}]
    /\ Len(fnOut.mags) = 24
    /\ fnOut.mags[13] = <<manyMagCalc("disk", 1, 1), None>>
    /\ fnOut.mags[7][1] = None /\ fnOut.mags[7][2] # None
    /\ fnOut.mags[1][1] = manyMagCalc("disk", 1, 1)

(***************************************************************************)
(* Claims about selectGalaxySED                                            *)
(***************************************************************************)

\* the colour k of a list of magnitudes
C14_Colour(mags, k) == mags[k] - mags[k + 1]

\* the sum over the nBand-1 colours of the squared differences between the
\* colours of two lists of magnitudes
RECURSIVE C14_ColourDistance(_, _, _)
C14_ColourDistance(a, b, k) ==
    IF k = 0 THEN 0
    ELSE C14_ColourDistance(a, b, k - 1)
         + (C14_Colour(a, k) - C14_Colour(b, k)) * (C14_Colour(a, k) - C14_Colour(b, k))

\* C14: matchToRestFrame returns two lists of length len(catMags) whose i-th
\* entries belong to the i-th catalogue row; the i-th SED name is that of a
\* model whose sum, over all nBand-1 adjacent-filter colours, of squared
\* differences between model colour and catalogue colour is minimal among all
\* models of sedList.
C14_NearestRestFrameModel ==
    fnOp = "matchToRestFrame" =>
        LET sedList == fnIn.sedList
            catMags == fnIn.catMags
            nBand == fnIn.nBand
        IN /\ Len(fnOut.sedMatches) = Len(catMags)
           /\ Len(fnOut.magNormMatches) = Len(catMags)
           /\ \A n \in 1..Len(catMags) :
                 \E s \in 1..Len(sedList) :
                    /\ fnOut.sedMatches[n] = sedList[s].name
                    /\ fnOut.magNormMatches[n] = catMags[n][1] - sedList[s].mags[1]
                    /\ \A q \in 1..Len(sedList) :
                          C14_ColourDistance(sedList[s].mags, catMags[n], nBand - 1)
                              <= C14_ColourDistance(sedList[q].mags, catMags[n], nBand - 1)

\* an object whose last colour is that of every model and whose first colour
\* is that of modelB alone, after an object that is modelA itself
C14_Witness ==
    /\ fnOp = "matchToRestFrame"
    /\ fnIn.nBand = 3
    /\ Len(fnIn.sedList) = 2
    /\ fnIn.catMags = <<<<0, 0, 0>>, <<2, 0, 0>>>>
    /\ fnOut.sedMatches = <<"modelA", "modelB">>

\* C15: matchToObserved returns for each catalogue object the name of the
\* model SED that matches its observed magnitudes most closely: the chosen
\* model minimises, among all models of sedList redshifted to the object's
\* redshift bin, the sum over all nBand-1 adjacent-filter colours of squared
\* differences between the model colour and the (optionally de-reddened)
\* catalogue colour.
C15_NearestObservedModel ==
    fnOp = "matchToObserved" =>
        LET sedList == fnIn.sedList
            nBand == fnIn.nBand
            mags(n) == [j \in 1..nBand |->
                           IF fnIn.extinction
                           THEN fnIn.catMags[n][j] - fnIn.ebvVals[n] * ExtCoeffs[j]
                           ELSE fnIn.catMags[n][j]]
            model(s, n) == ModelMags(sedList[s], RoundRedshift(fnIn.catRedshifts[n]), nBand)
        IN /\ Len(fnOut.sedMatches) = Len(fnIn.catMags)
           /\ \A n \in 1..Len(fnIn.catMags) :
                 \E s \in 1..Len(sedList) :
                    /\ fnOut.sedMatches[n] = Some(sedList[s].name)
                    /\ \A q \in 1..Len(sedList) :
                          C14_ColourDistance(model(s, n), mags(n), nBand - 1)
                              <= C14_ColourDistance(model(q, n), mags(n), nBand - 1)

(***************************************************************************)
(* Claims about BandpassDict (checked under SpecBandpassDict)              *)
(***************************************************************************)

\* the names given to the constructor are distinct
C17_DistinctNames ==
    \A a, b \in 1..Len(bdArgs.bandpassNameList) :
        a # b => bdArgs.bandpassNameList[a] # bdArgs.bandpassNameList[b]

\* C17: a BandpassDict built from a list of bandpasses and a list of distinct
\* names preserves the given order: its length is the number of bandpasses,
\* and iterating the dict, its keys() and its values() each yield the i-th
\* given name / the i-th given bandpass at position i, in any order of the
\* names.
C17_OrderPreserved ==
    (bdOp # "none" /\ C17_DistinctNames) =>
        /\ bdObj # None
        /\ LET d == Val(bdObj)
               nameList == bdArgs.bandpassNameList
               bpList == bdArgs.bandpassList
           IN /\ DictLen(d) = Len(bpList)
              /\ Len(DictIter(d)) = Len(nameList)
              /\ Len(DictKeys(d)) = Len(nameList)
              /\ Len(DictValues(d)) = Len(bpList)
              /\ \A k \in 1..Len(nameList) :
                    /\ DictIter(d)[k] = nameList[k]
                    /\ DictKeys(d)[k] = nameList[k]
                    /\ DictValues(d)[k] = bpList[k]
                    /\ d.byName[nameList[k]] = bpList[k]

\* a dict of three bandpasses whose names are not in alphabetical order and
\* whose first and last bandpass come from the same file
C17_Witness ==
    /\ bdOp = "BandpassDict"
    /\ bdArgs.bandpassNameList = <<"u0", "g", "u">>
    /\ bdArgs.bandpassList = <<readThroughput("total_", "u"), readThroughput("total_", "g"),
                               readThroughput("total_", "u")>>
    /\ bdObj # None
    /\ DictKeys(Val(bdObj)) = <<"u0", "g", "u">>

\* C18: constructing a BandpassDict with a name list in which some name
\* occurs twice raises RuntimeError whose message contains 'occurs twice' and
\* builds no dict; on a built dict, assigning to phiArray, wavelenStep or
\* wavelenMatch raises AttributeError and leaves the stored value unchanged.
C18_Exceptions ==
    /\ []((bdOp = "BandpassDict" /\ ~C17_DistinctNames) =>
             /\ bdRaised = Some("RuntimeError")
             /\ \E k \in 1..Len(bdOut) : bdOut[k] = "occurs twice"
             /\ bdObj = None)
    /\ [][bdOp' = "setattr" =>
             /\ bdOut'[1] \in {"phiArray", "wavelenStep", "wavelenMatch"}
             /\ bdRaised' = Some("AttributeError")
             /\ bdObj # None
             /\ bdObj' = bdObj]_vars

\* a constructor call whose first and last name are the same has raised
C18_Witness ==
    /\ bdOp = "BandpassDict"
    /\ bdArgs.bandpassNameList = <<"u", "g", "u">>
    /\ bdRaised = Some("RuntimeError")
    /\ bdObj = None

\* the NaN entries of a list
C19_NaNCount(list) == Cardinality({k \in 1..Len(list) : list[k] = NaN})

\* a list of one Sed has one entry per bandpass of the dict: the value in
\* bandpass k where k is listed, NaN where it is not
C19_ListOk(list, sed) ==
    LET bpList == bdArgs.bandpassList
        indices == Val(bdOut.indices)
    IN /\ Len(list) = Len(bpList)
       /\ \A k \in 1..Len(bpList) :
             IF (k - 1) \in indices
             THEN list[k] = IF bdOut.flux THEN calcFlux(sed, bpList[k])
                            ELSE calcMag(sed, bpList[k])
             ELSE list[k] = NaN
       /\ C19_NaNCount(list) = Len(bpList) - Cardinality(indices)

\* C19: when a list of bandpass indices is passed to magListForSed /
\* magListForSedList (or the flux equivalents), the result still has one entry
\* per bandpass of the dict (nSed x nBandpasses for a list of Seds); the
\* entries at the listed indices are the magnitudes in those bandpasses and
\* every other entry is NaN, so nBandpasses - len(indices) entries per Sed
\* are NaN.
C19_IndicesGiveNaN ==
    /\ (bdOp = "listForSed" /\ bdOut.indices # None) => C19_ListOk(bdOut.list, bdOut.sed)
    /\ (bdOp = "listForSedList" /\ bdOut.indices # None) =>
          /\ Len(bdOut.list) = Len(bdOut.sedList)
          /\ \A s \in 1..Len(bdOut.sedList) : C19_ListOk(bdOut.list[s], bdOut.sedList[s])

\* the magnitudes of two Seds in the first and the last of three bandpasses
C19_Witness ==
    /\ bdOp = "listForSedList"
    /\ DictLen(Val(bdObj)) = 3
    /\ bdOut.indices = Some({0, 2})
    /\ ~bdOut.flux
    /\ Len(bdOut.list) = 2
    /\ bdOut.list[1][2] = NaN /\ bdOut.list[1][1] # NaN /\ bdOut.list[2][3] # NaN

(***************************************************************************)
(* More claims about PhotometricParameters (checked under SpecPP)          *)
(***************************************************************************)

\* C20: an explicit constructor argument that is zero is honoured and not
\* replaced by the bandpass default: PhotometricParameters(sigmaSys=0.0)
\* has sigmaSys 0.0, and likewise for every other parameter passed as 0; only
\* an argument that is None falls back to the default.
C20_ZeroIsHonoured ==
    ppState # "none" =>
        /\ \A p \in ParamNames :
              /\ ppArgs[p] = Some(0) =>
                    /\ ppState = "built" => Property(p) = Some(0)
                    /\ \A b \in bandpassNameSet : defaults[p][b] # 0
                    /\ \A k \in 1..Len(ppMessage) : ppMessage[k][2] # p
              /\ (ppState = "built" /\ Property(p) # ppArgs[p]) => ppArgs[p] = None
        /\ (\A p \in ParamNames : ppArgs[p] = Some(0)) => ppState = "built"

\* PhotometricParameters(sigmaSys=0) without a bandpass
C20_Witness ==
    /\ ppState = "built"
    /\ ppArgBandpass = None
    /\ ppArgs["sigmaSys"] = Some(0)
    /\ ppArgs["exptime"] = None
    /\ Property("sigmaSys") = Some(0)
    /\ Property("exptime") = Some(defaults["exptime"]["any"])

(***************************************************************************)
(* Claims about PhotometryBase.applyAvAndRedshift (checked under           *)
(* SpecApplyAv)                                                            *)
(***************************************************************************)

\* the Sed the four steps make of sedList[i], one step after the other
C22_Expected(i) ==
    LET sed == fnIn.sedList[i]
        dusted == IF fnIn.internalAv # None
                  THEN addCCMDust(sed, setupCCMab(sed), Val(fnIn.internalAv)[i])
                  ELSE sed
        z == Val(fnIn.redshift)[i]
        moved == redshiftSED(dusted, z, TRUE)
        named == [moved EXCEPT !.name = Some(Val(sed.name) \o "_Z" \o FormatZ(z))]
        resampled == [named EXCEPT
                         !.wavelen = Some(BandpassWavelen(Val(fnIn.bandPassList)[1]))]
    IN IF fnIn.redshift # None THEN resampled ELSE dusted

\* C22: applyAvAndRedshift changes the Seds in place and returns nothing; a
\* Sed with a wavelength grid and a name gets, in this order, the internal
\* dust with internalAv[i] (if internalAv is given), the redshift redshift[i]
\* with dimming, '_Z' and the redshift to two decimals appended to its name,
\* and the grid of the first bandpass (the last three if redshift is given);
\* a Sed whose grid is None is left as it was.
C22_DustThenRedshift ==
    fnOp = "applyAvAndRedshift" =>
        /\ fnOut.returned = None
        /\ Len(fnOut.sedList) = Len(fnIn.sedList)
        /\ \A i \in 1..Len(fnIn.sedList) :
              IF fnIn.sedList[i].wavelen = None
              THEN fnOut.sedList[i] = fnIn.sedList[i]
              ELSE fnOut.sedList[i] = C22_Expected(i)

\* a call with dust and redshift on an empty Sed and a Sed on another grid
\* than the bandpasses', the redshift 0.507 written as 0.51
C22_Witness ==
    /\ fnOp = "applyAvAndRedshift"
    /\ fnIn.internalAv = Some(<<1, 3>>)
    /\ fnIn.redshift = Some(<<1234, 507>>)
    /\ Len(fnIn.sedList) = 2
    /\ fnIn.sedList[1] = EmptySed
    /\ fnOut.sedList[1] = EmptySed
    /\ fnOut.sedList[2].name = Some("galaxySED/b.dat.gz_Z0.51")
    /\ fnOut.sedList[2].wavelen = Some("total_r.dat")
    /\ fnOut.sedList[2].wavelen # fnIn.sedList[2].wavelen
    /\ Len(Val(fnOut.sedList[2].flambda)) = 3

====
